---- MODULE Spec2Model ----
(***************************************************************************)
(* Session-and-permission authorization core of the College Management     *)
(* System API (src/api/cms): the sessions table and its repository, the    *)
(* identity resolver (auth/dependency.py), the permission authority and    *)
(* the HTTP handlers that use them.                                        *)
(*                                                                         *)
(* Time is counted in clock units of 1/SubSec second.  now() has sub-second*)
(* resolution while sessions.expires_at is TIMESTAMP(0), so every value    *)
(* written to expires_at is rounded to a whole second.                     *)
(***************************************************************************)
EXTENDS Integers, Sequences, FiniteSets, TLC

VARIABLES
    now,               \* the database clock, NOW()
    ticks,             \* number of clock advances so far (bounded)
    users,             \* table users: id -> row
    permissions,       \* table permissions: set of slugs
    user_permissions,  \* table user_permissions: set of <<user_id, permission>>
    sessions,          \* table sessions: session_id -> row
    next_session_id,   \* the next value gen_random_uuid() yields (ids are never reused)
    last,              \* the response of the last request handled
    call,              \* the last direct call of the permission authority
    inflight,          \* a logout and a refresh of one session handled concurrently
    students,          \* table students: id -> row
    staff,             \* table staff: id -> row
    parents,           \* table parents: id -> row
    schools,           \* table schools: id -> row
    objects,           \* bucket profile-img: object name -> object
    in_use,            \* connections of the pool acquired and not given back
    pending            \* a self-scoped school request between its check and its statement

\* the tables, the bucket and the pool beside the account and session store
entities == <<students, staff, parents, schools, objects, in_use, pending>>

vars == <<now, ticks, users, permissions, user_permissions, sessions,
          next_session_id, last, call, inflight, entities>>

----------------------------------------------------------------------------
(* Bounds of the model *)

MaxSessions == 2

MaxGroups == 2

MaxGroupLen == 2

MaxTicks == 3

SubSec == 4

----------------------------------------------------------------------------
(* Program constants *)

FifteenMinutesSec == 900

OneMonthSec == 2592000

\* INTERVAL '15 minutes' in clock units
FifteenMinutes == FifteenMinutesSec * SubSec

\* INTERVAL '1 month' in clock units (a 30-day month)
OneMonth == OneMonthSec * SubSec

\* TIMESTAMP(0): a value stored in expires_at is rounded to the nearest second
RoundToSecond(t) == ((t + (SubSec \div 2)) \div SubSec) * SubSec

----------------------------------------------------------------------------
(* Values *)

UserIds == {1, 2, 3}

AdminPermissions ==
    {"session:read:any", "session:delete:any", "session:delete:expired",
     "user:update:any", "user:grant_permission", "user:revoke_permission",
     "user:delete", "permission:create", "permission:delete",
     "user:create", "student:create", "staff:create", "parent:create",
     "school:update:any", "school:delete:any"}

SelfPermissions ==
    {"session:read:self", "session:delete:self", "user:update:self",
     "school:update:self", "school:delete:self"}

Catalog == AdminPermissions \cup SelfPermissions

\* utils/hash.py: sha3_256 hex digest, modelled as an injective tagging
hash_string(input_string) == [sha3_256 |-> input_string]

verify_hash(input_string, hash_value) == hash_string(input_string) = hash_value

\* argon2 hash of a plaintext password (credential verifier)
hash_password(password) == [argon2 |-> password]

\* raises VerifyMismatchError (FALSE) when the password does not match
verify_password(hashed, password) == hashed = hash_password(password)

\* str.lower() on the e-mail addresses of the model
lower(s) ==
    CASE s = "Admin@cms.com" -> "admin@cms.com"
      [] s = "Bob@cms.com" -> "bob@cms.com"
      [] s = "Dave@cms.com" -> "dave@cms.com"
      [] s = "Erin@cms.com" -> "erin@cms.com"
      [] s = "Gary@cms.com" -> "gary@cms.com"
      [] OTHER -> s

\* ipaddress.ip_address(s) followed by str(): the normal form of an address,
\* or "unknown" for a string that is not an address
_validate_ip(ip_str) ==
    CASE ip_str = "10.0.0.1" -> "10.0.0.1"
      [] ip_str = "10.0.0.2" -> "10.0.0.2"
      [] ip_str = "::0001" -> "::1"
      [] OTHER -> "unknown"

\* a request's network origin: header X-Forwarded-For split at "," (<<>> when
\* the request does not carry the header, <<"">> when its value is empty),
\* header X-Real-IP (<<>> when the request does not carry it, else its value
\* alone) and the peer address ("" when request.client is None)
Origins ==
    { [forwarded_for |-> <<>>, real_ip |-> <<>>, client |-> "10.0.0.1"],
      [forwarded_for |-> <<"10.0.0.2", "10.0.0.1">>, real_ip |-> <<"10.0.0.1">>,
       client |-> "10.0.0.1"] }

\* str.strip() on the header entries of the model
strip(s) ==
    CASE s = " 10.0.0.2" -> "10.0.0.2"
      [] s = " ::0001 " -> "::0001"
      [] s = " " -> ""
      [] OTHER -> s

\* "if header:" the request carries the header and its value is not empty
is_set(header) == header # <<>> /\ header # <<"">>

\* get_client_ip, mutated: X-Real-IP is consulted before X-Forwarded-For
get_client_ip_real_ip_first(request) ==
    IF is_set(request.real_ip)
    THEN _validate_ip(strip(request.real_ip[1]))
    ELSE IF is_set(request.forwarded_for)
    THEN _validate_ip(strip(request.forwarded_for[1]))
    ELSE LET client_ip == IF request.client # "" THEN request.client ELSE "unknown"
         IN IF client_ip # "unknown" THEN _validate_ip(client_ip) ELSE "unknown"

get_client_ip(request) ==
    IF is_set(request.forwarded_for)
    THEN _validate_ip(strip(request.forwarded_for[1]))
    ELSE IF is_set(request.real_ip)
    THEN _validate_ip(strip(request.real_ip[1]))
    ELSE LET client_ip == IF request.client # "" THEN request.client ELSE "unknown"
         IN IF client_ip # "unknown" THEN _validate_ip(client_ip) ELSE "unknown"

\* the Authorization header: absent, not a UUID, or the UUID of session id
Credentials ==
    { [kind |-> "absent", id |-> 0], [kind |-> "malformed", id |-> 0] }
    \cup { [kind |-> "uuid", id |-> i] : i \in 1..(MaxSessions + 1) }

----------------------------------------------------------------------------
(* Outcomes of repository calls and HTTP responses *)

\* a call that returned value v
Return(v) == [ok |-> TRUE, value |-> v]

\* a call that raised the domain error e about parameter p
Raise(e, p) == [ok |-> FALSE, error |-> e, parameter |-> p]

\* credentials_not_found_exception_handler
CredentialsNotFoundResponse ==
    [status |-> 401, error |-> "CredentialsNotFound", context |-> "none"]

\* session_invalid_or_expired_exception_handler
SessionInvalidOrExpiredResponse ==
    [status |-> 403, error |-> "SessionInvalidOrExpired",
     context |-> "Session is invalid or expired"]

\* not_enough_permissions_exception_handler
NotEnoughPermissionsResponse ==
    [status |-> 403, error |-> "NotEnoughPermissions",
     context |-> "Not enough permissions"]

\* a handler's "except XNotFoundException as e" branch: 404 with e.context
NotFoundResponse(e) == [status |-> 404, error |-> e.error, context |-> e.parameter]

\* a handler's normal return with the given status code
SuccessResponse(code) == [status |-> code, error |-> "none", context |-> "none"]

\* an exception no handler catches
InternalErrorResponse(e) == [status |-> 500, error |-> e, context |-> "none"]

----------------------------------------------------------------------------
(* SessionRepository (sessions/repository.py) *)

\* the created row, mutated: expires_at defaults to now() without the interval
NewSessionRow_expiring_now(user_id, ip_addr) ==
    [session_id |-> next_session_id,
     user_id |-> user_id,
     ip_addr |-> ip_addr,
     expires_at |-> RoundToSecond(now),
     is_terminated |-> FALSE]

\* the row INSERT INTO sessions(user_id, ip_addr) creates, with the column
\* defaults of the sessions table
NewSessionRow(user_id, ip_addr) ==
    [session_id |-> next_session_id,
     user_id |-> user_id,
     ip_addr |-> ip_addr,
     expires_at |-> RoundToSecond(now + FifteenMinutes),
     is_terminated |-> FALSE]

\* SessionRepository.create: the outcome (fk_sessions_users must hold)
create(user_id, ip_addr) ==
    IF user_id \in DOMAIN users
    THEN Return(NewSessionRow(user_id, ip_addr))
    ELSE Raise("UserNotFound", "user_id")

\* the sessions table after a successful create
sessions_after_create(user_id, ip_addr) ==
    [s \in DOMAIN sessions \cup {next_session_id} |->
        IF s = next_session_id THEN NewSessionRow(user_id, ip_addr) ELSE sessions[s]]

\* SessionRepository.get_by_id, mutated: the is_terminated condition is missing
get_by_id_without_terminated(session_id) ==
    IF /\ session_id \in DOMAIN sessions
       /\ sessions[session_id].expires_at > now
    THEN Return(sessions[session_id])
    ELSE Raise("SessionNotFound", "session_id")

\* SessionRepository.get_by_id
get_by_id(session_id) ==
    IF /\ session_id \in DOMAIN sessions
       /\ sessions[session_id].expires_at > now
       /\ sessions[session_id].is_terminated = FALSE
    THEN Return(sessions[session_id])
    ELSE Raise("SessionNotFound", "session_id")

\* SessionRepository.get_by_user_id: the ids of the rows selected
get_by_user_id(user_id) ==
    {s \in DOMAIN sessions :
        /\ sessions[s].user_id = user_id
        /\ sessions[s].expires_at > now
        /\ sessions[s].is_terminated = FALSE}

\* SessionRepository.terminate: the outcome ("UPDATE 1" or not)
terminate(session_id) ==
    IF session_id \in DOMAIN sessions
    THEN Return(session_id)
    ELSE Raise("SessionNotFound", "session_id")

\* terminate's UPDATE, mutated: the flag is flipped instead of set
sessions_after_terminate_toggle(session_id) ==
    [s \in DOMAIN sessions |->
        IF s = session_id
        THEN [sessions[s] EXCEPT !.is_terminated = ~sessions[s].is_terminated]
        ELSE sessions[s]]

\* the sessions table after terminate's UPDATE
sessions_after_terminate(session_id) ==
    [s \in DOMAIN sessions |->
        IF s = session_id
        THEN [sessions[s] EXCEPT !.is_terminated = TRUE]
        ELSE sessions[s]]

\* terminate_all_user_sessions' UPDATE, mutated: the user_id condition is missing
sessions_after_terminate_all_everyone(user_id) ==
    [s \in DOMAIN sessions |->
        IF sessions[s].expires_at > now
        THEN [sessions[s] EXCEPT !.is_terminated = TRUE]
        ELSE sessions[s]]

\* the sessions table after terminate_all_user_sessions' UPDATE
sessions_after_terminate_all(user_id) ==
    [s \in DOMAIN sessions |->
        IF sessions[s].user_id = user_id /\ sessions[s].expires_at > now
        THEN [sessions[s] EXCEPT !.is_terminated = TRUE]
        ELSE sessions[s]]

\* clean_expired's DELETE, mutated: the comparison is inverted
sessions_after_clean_expired_inverted ==
    [s \in {x \in DOMAIN sessions : ~(sessions[x].expires_at + OneMonth > now)} |->
        sessions[s]]

\* clean_expired's DELETE, mutated: the grace interval is missing
sessions_after_clean_expired_no_grace ==
    [s \in {x \in DOMAIN sessions : ~(sessions[x].expires_at < now)} |->
        sessions[s]]

\* the sessions table after clean_expired's DELETE
sessions_after_clean_expired ==
    [s \in {x \in DOMAIN sessions : ~(sessions[x].expires_at + OneMonth < now)} |->
        sessions[s]]

\* SessionRepository.refresh, mutated: the lifetime is added to the old
\* expiration instead of now()
refresh_from_old_expiry(session_id) ==
    IF /\ session_id \in DOMAIN sessions
       /\ sessions[session_id].expires_at > now
       /\ sessions[session_id].is_terminated = FALSE
    THEN Return(RoundToSecond(sessions[session_id].expires_at + FifteenMinutes))
    ELSE Raise("SessionNotFound", "session_id")

\* SessionRepository.refresh, mutated: the is_terminated condition is missing
refresh_without_terminated(session_id) ==
    IF /\ session_id \in DOMAIN sessions
       /\ sessions[session_id].expires_at > now
    THEN Return(RoundToSecond(now + FifteenMinutes))
    ELSE Raise("SessionNotFound", "session_id")

\* SessionRepository.refresh: the outcome (RETURNING expires_at, or None)
refresh(session_id) ==
    IF /\ session_id \in DOMAIN sessions
       /\ sessions[session_id].expires_at > now
       /\ sessions[session_id].is_terminated = FALSE
    THEN Return(RoundToSecond(now + FifteenMinutes))
    ELSE Raise("SessionNotFound", "session_id")

\* the sessions table after refresh's UPDATE
sessions_after_refresh(session_id) ==
    LET r == refresh(session_id)
    IN IF r.ok
       THEN [sessions EXCEPT ![session_id].expires_at = r.value]
       ELSE sessions

----------------------------------------------------------------------------
(* UserRepository (users/repository.py) *)

\* UserRepository.get_by_email_id, mutated: the is_active condition is missing
get_by_email_id_any(email_id) ==
    LET found == {u \in DOMAIN users : users[u].email_id = email_id}
    IN IF found = {}
       THEN Raise("UserNotFound", "email_id")
       ELSE Return(CHOOSE u \in found : TRUE)

\* UserRepository.get_by_email_id: the id of the active user with that e-mail
get_by_email_id(email_id) ==
    LET found == {u \in DOMAIN users :
                    users[u].email_id = email_id /\ users[u].is_active = TRUE}
    IN IF found = {}
       THEN Raise("UserNotFound", "email_id")
       ELSE Return(CHOOSE u \in found : TRUE)

\* SELECT TRUE FROM users WHERE id = $1 AND is_active = TRUE
is_active_user(user_id) ==
    user_id \in DOMAIN users /\ users[user_id].is_active = TRUE

\* the grants of the initial state
InitialGrants ==
    {<<1, p>> : p \in AdminPermissions} \cup {<<2, p>> : p \in SelfPermissions}

\* UserRepository.get_user_permissions, mutated: a permission set computed
\* once is served again
get_user_permissions_cached(user_id) ==
    LET records == {g[2] : g \in {x \in InitialGrants : x[1] = user_id}}
    IN IF records = {} /\ ~is_active_user(user_id)
       THEN Raise("UserNotFound", "user_id")
       ELSE Return(records)

\* UserRepository.get_user_permissions
get_user_permissions(user_id) ==
    LET records == {g[2] : g \in {x \in user_permissions : x[1] = user_id}}
    IN IF records = {} /\ ~is_active_user(user_id)
       THEN Raise("UserNotFound", "user_id")
       ELSE Return(records)

----------------------------------------------------------------------------
(* Identity resolver and permission authority (auth/dependency.py) *)

\* get_session_id: the bearer credential parsed as a session id
\* get_session_id, mutated: a token that does not parse is passed on as the
\* nil session id instead of raising
get_session_id_lenient(credentials) ==
    IF credentials.kind = "absent"
    THEN Raise("CredentialsNotFound", "none")
    ELSE Return(credentials.id)

get_session_id(credentials) ==
    IF credentials.kind = "absent"
    THEN Raise("CredentialsNotFound", "none")
    ELSE IF credentials.kind # "uuid"
    THEN Raise("CredentialsNotFound", "none")
    ELSE Return(credentials.id)

\* a dependency that raised: the request ends with the handler's response
Denied(response) ==
    [ok |-> FALSE, http |-> response, user_id |-> 0, session_id |-> 0,
     permissions |-> {}]

\* the Session value get_session returns
Identity(session, permission_records) ==
    [ok |-> TRUE, http |-> SuccessResponse(200), user_id |-> session.user_id,
     session_id |-> session.session_id, permissions |-> permission_records]

\* get_session, mutated: the client-IP hash is not compared
get_session_without_ip_check(credentials, request) ==
    LET parsed == get_session_id(credentials)
    IN IF ~parsed.ok
       THEN Denied(CredentialsNotFoundResponse)
       ELSE LET session == get_by_id(parsed.value)
            IN IF ~session.ok
               THEN Denied(SessionInvalidOrExpiredResponse)
               ELSE LET perms == get_user_permissions(session.value.user_id)
                    IN IF ~perms.ok
                       THEN Denied(SessionInvalidOrExpiredResponse)
                       ELSE Identity(session.value, perms.value)

\* get_session
get_session(credentials, request) ==
    LET parsed == get_session_id(credentials)
    IN IF ~parsed.ok
       THEN Denied(CredentialsNotFoundResponse)
       ELSE LET session == get_by_id(parsed.value)
            IN IF ~session.ok
               THEN Denied(SessionInvalidOrExpiredResponse)
               ELSE LET perms == get_user_permissions(session.value.user_id)
                    IN IF ~perms.ok
                       THEN Denied(SessionInvalidOrExpiredResponse)
                       ELSE IF verify_hash(get_client_ip(request),
                                           session.value.ip_addr)
                       THEN Identity(session.value, perms.value)
                       ELSE Denied(SessionInvalidOrExpiredResponse)

\* all(permission in held for permission in group)
HoldsAll(group, held) == \A i \in 1..Len(group) : group[i] \in held

\* RequiresPermission.__call__, mutated: any() instead of all()
RequiresPermission_any(required_permissions, held) ==
    IF \E i \in 1..Len(required_permissions) : required_permissions[i] \in held
    THEN Return(<<>>)
    ELSE Raise("NotEnoughPermissions", "none")

\* RequiresPermission.__call__
RequiresPermission(required_permissions, held) ==
    IF HoldsAll(required_permissions, held)
    THEN Return(<<>>)
    ELSE Raise("NotEnoughPermissions", "none")

\* RequiresAnyOfGivenPermission.__call__, mutated: the last satisfied group wins
RECURSIVE RequiresAnyOfGivenPermission_last(_, _)
RequiresAnyOfGivenPermission_last(groups, held) ==
    IF groups = <<>>
    THEN Raise("NotEnoughPermissions", "none")
    ELSE LET n == Len(groups)
         IN IF HoldsAll(groups[n], held)
            THEN Return(groups[n])
            ELSE RequiresAnyOfGivenPermission_last(SubSeq(groups, 1, n - 1), held)

\* RequiresAnyOfGivenPermission.__call__
RECURSIVE RequiresAnyOfGivenPermission(_, _)
RequiresAnyOfGivenPermission(groups, held) ==
    IF groups = <<>>
    THEN Raise("NotEnoughPermissions", "none")
    ELSE IF HoldsAll(groups[1], held)
    THEN Return(groups[1])
    ELSE RequiresAnyOfGivenPermission(Tail(groups), held)

\* "slug" in permissions, for the group the authority returned
InGroup(slug, group) == \E i \in 1..Len(group) : group[i] = slug

\* the dependencies of an endpoint declared with RequiresPermission(required)
AuthorizeAll(credentials, request, required) ==
    LET session == get_session(credentials, request)
    IN IF ~session.ok
       THEN [session |-> session, ok |-> FALSE, http |-> session.http,
             matched |-> <<>>]
       ELSE LET r == RequiresPermission(required, session.permissions)
            IN IF r.ok
               THEN [session |-> session, ok |-> TRUE, http |-> session.http,
                     matched |-> <<>>]
               ELSE [session |-> session, ok |-> FALSE,
                     http |-> NotEnoughPermissionsResponse, matched |-> <<>>]

\* the dependencies of an endpoint declared with
\* RequiresAnyOfGivenPermission(groups)
AuthorizeAnyOf(credentials, request, groups) ==
    LET session == get_session(credentials, request)
    IN IF ~session.ok
       THEN [session |-> session, ok |-> FALSE, http |-> session.http,
             matched |-> <<>>]
       ELSE LET r == RequiresAnyOfGivenPermission(groups, session.permissions)
            IN IF r.ok
               THEN [session |-> session, ok |-> TRUE, http |-> session.http,
                     matched |-> r.value]
               ELSE [session |-> session, ok |-> FALSE,
                     http |-> NotEnoughPermissionsResponse, matched |-> <<>>]

\* what is recorded of a handled request: the operation, the session id of
\* the bearer token (0 when none parsed), the client address resolved for the
\* request, the path parameter, the resolved identity, the group the
\* authority matched, the response and the value in its body
Response(op, credentials, request, target, auth, http, value) ==
    [op |-> op,
     token |-> credentials.id,
     ip |-> get_client_ip(request),
     target |-> target,
     caller |-> auth.session.user_id,
     permissions |-> auth.session.permissions,
     matched |-> auth.matched,
     http |-> http,
     value |-> value]

\* no identity was resolved (endpoints without the get_session dependency)
NoAuth ==
    [session |-> Denied(SuccessResponse(200)), ok |-> TRUE,
     http |-> SuccessResponse(200), matched |-> <<>>]

\* a request with no network origin of interest
AnyOrigin == [forwarded_for |-> <<>>, real_ip |-> <<>>, client |-> ""]

NoCall == [op |-> "none", groups |-> <<>>, held |-> {}, result |-> Return(<<>>)]

\* a request whose statement has not been executed yet
Pending == [status |-> 0, error |-> "pending", context |-> "none"]

\* no two requests are being handled concurrently
NoRace ==
    [session_id |-> 0, before |-> 0, logout |-> Pending, refresh |-> Pending,
     value |-> 0, order |-> <<>>]

\* no self-scoped school request is between its ownership check and its statement
NoPending ==
    [op |-> "none", credentials |-> [kind |-> "absent", id |-> 0],
     request |-> AnyOrigin, auth |-> NoAuth, school_id |-> 0,
     body |-> [name |-> "", dean_id |-> 0]]

NoResponse ==
    Response("none", [kind |-> "absent", id |-> 0], AnyOrigin, 0, NoAuth,
             SuccessResponse(200), 0)

----------------------------------------------------------------------------
(* Initial state: the catalog is seeded, the admin user holds every          *)
(* permission (app/setup.py) and one more user has been registered and       *)
(* granted the self-scoped permissions.  No session exists.                  *)

InitialUsers ==
    [u \in {1, 2} |->
        IF u = 1
        THEN [email_id |-> "admin@cms.com", password |-> hash_password("Admin@123"),
              contact_no |-> "+91 98746 54321", is_active |-> TRUE,
              profile_image_id |-> 0]
        ELSE [email_id |-> "bob@cms.com", password |-> hash_password("Bob@123"),
              contact_no |-> "+91 90000 00002", is_active |-> TRUE,
              profile_image_id |-> 0]]

\* the staff rows of the two seeded users
InitialStaff == [u \in {1, 2} |-> [position |-> "Professor", is_active |-> TRUE]]

\* one school, whose dean is user 2
InitialSchools ==
    [s \in {1} |-> [name |-> "Engineering", dean_id |-> 2, is_active |-> TRUE]]

Init ==
    /\ now = 0
    /\ ticks = 0
    /\ users = InitialUsers
    /\ permissions = Catalog
    /\ user_permissions = InitialGrants
    /\ sessions = << >>
    /\ next_session_id = 1
    /\ last = NoResponse
    /\ call = NoCall
    /\ inflight = NoRace
    /\ students = << >>
    /\ staff = InitialStaff
    /\ parents = << >>
    /\ schools = InitialSchools
    /\ objects = << >>
    /\ in_use = 0
    /\ pending = NoPending

\* no response is pending: the last response has been delivered to its client
Idle == last = NoResponse

\* the response of the request just handled is sent to the client
Deliver ==
    /\ ~Idle
    /\ last' = NoResponse
    /\ UNCHANGED <<now, ticks, users, permissions, user_permissions, sessions,
                   next_session_id, call, inflight, entities>>

\* the clock steps of the model: one clock unit, the session lifetime, the
\* purge grace period
TickSteps == {1, FifteenMinutes, OneMonth}

\* time passes
Tick(d) ==
    /\ Idle
    /\ ticks < MaxTicks
    /\ now' = now + d
    /\ ticks' = ticks + 1
    /\ last' = NoResponse
    /\ UNCHANGED <<users, permissions, user_permissions, sessions,
                   next_session_id, call, inflight, entities>>

----------------------------------------------------------------------------
(* Authentication flow (auth/views.py) *)

LoginEmails == {"admin@cms.com", "Bob@cms.com", "carol@cms.com"}

LoginPasswords == {"Admin@123", "Bob@123"}

\* POST /auth/login
Login(email_id, password, request) ==
    Idle /\
    LET user_record == get_by_email_id(lower(email_id))
    IN /\ IF ~user_record.ok
          THEN /\ last' = Response("login", [kind |-> "absent", id |-> 0], request,
                                   0, NoAuth, NotFoundResponse(user_record), 0)
               /\ UNCHANGED <<sessions, next_session_id>>
          ELSE IF ~verify_password(users[user_record.value].password, password)
          THEN /\ last' = Response("login", [kind |-> "absent", id |-> 0], request,
                                   user_record.value, NoAuth,
                                   [status |-> 400, error |-> "PasswordIncorrect",
                                    context |-> "none"], 0)
               /\ UNCHANGED <<sessions, next_session_id>>
          ELSE LET session == create(user_record.value,
                                     hash_string(get_client_ip(request)))
               IN /\ next_session_id <= MaxSessions
                  /\ sessions' = sessions_after_create(
                                    user_record.value,
                                    hash_string(get_client_ip(request)))
                  /\ next_session_id' = next_session_id + 1
                  /\ last' = Response("login",
                                      [kind |-> "uuid", id |-> session.value.session_id],
                                      request, user_record.value, NoAuth,
                                      SuccessResponse(200), session.value.expires_at)
       /\ UNCHANGED <<now, ticks, users, permissions, user_permissions, call, inflight, entities>>

\* POST /auth/logout
Logout(credentials) ==
    Idle /\
    LET session_id == get_session_id(credentials)
    IN /\ IF ~session_id.ok
          THEN /\ last' = Response("logout", credentials, AnyOrigin, 0, NoAuth,
                                   CredentialsNotFoundResponse, 0)
               /\ UNCHANGED sessions
          ELSE LET r == terminate(session_id.value)
               IN IF r.ok
                  THEN /\ sessions' = sessions_after_terminate(session_id.value)
                       /\ last' = Response("logout", credentials, AnyOrigin,
                                           session_id.value, NoAuth,
                                           SuccessResponse(204), 0)
                  ELSE /\ last' = Response("logout", credentials, AnyOrigin,
                                           session_id.value, NoAuth,
                                           NotFoundResponse(r), 0)
                       /\ UNCHANGED sessions
       /\ UNCHANGED <<now, ticks, users, permissions, user_permissions,
                      next_session_id, call, inflight, entities>>

\* POST /auth/refresh sent from the given origin: the handler depends on
\* get_session_id alone and reads nothing of the request but the token
RefreshSession(credentials, request) ==
    Idle /\
    LET session_id == get_session_id(credentials)
    IN /\ IF ~session_id.ok
          THEN /\ last' = Response("refresh_session", credentials, request, 0,
                                   NoAuth, CredentialsNotFoundResponse, 0)
               /\ UNCHANGED sessions
          ELSE LET expires_at == refresh(session_id.value)
               IN IF expires_at.ok
                  THEN /\ sessions' = sessions_after_refresh(session_id.value)
                       /\ last' = Response("refresh_session", credentials, request,
                                           session_id.value, NoAuth,
                                           SuccessResponse(200), expires_at.value)
                  ELSE /\ last' = Response("refresh_session", credentials, request,
                                           session_id.value, NoAuth,
                                           NotFoundResponse(expires_at), 0)
                       /\ UNCHANGED sessions
       /\ UNCHANGED <<now, ticks, users, permissions, user_permissions,
                      next_session_id, call, inflight, entities>>

----------------------------------------------------------------------------
(* Session endpoints (sessions/views.py) *)

\* the session ids a request can name: those ever issued and one never issued
SessionIds == 1..(MaxSessions + 1)

\* GET /session/{session_id}
GetSessionById(credentials, request, session_id) ==
    Idle /\
    LET auth == AuthorizeAnyOf(credentials, request,
                               << <<"session:read:any">>, <<"session:read:self">> >>)
        record == get_by_id(session_id)
    IN /\ last' =
            IF ~auth.ok
            THEN Response("get_session_by_id", credentials, request, session_id,
                          auth, auth.http, 0)
            ELSE IF ~record.ok
            THEN Response("get_session_by_id", credentials, request, session_id,
                          auth, NotFoundResponse(record), 0)
            ELSE IF /\ InGroup("session:read:self", auth.matched)
                    /\ record.value.user_id # auth.session.user_id
            THEN Response("get_session_by_id", credentials, request, session_id,
                          auth, NotEnoughPermissionsResponse, 0)
            ELSE Response("get_session_by_id", credentials, request, session_id,
                          auth, SuccessResponse(200), record.value.session_id)
       /\ UNCHANGED <<now, ticks, users, permissions, user_permissions, sessions,
                      next_session_id, call, inflight, entities>>

\* DELETE /session/{session_id}
TerminateSession(credentials, request, session_id) ==
    Idle /\
    LET auth == AuthorizeAll(credentials, request, <<"session:delete:any">>)
        r == terminate(session_id)
    IN /\ IF ~auth.ok
          THEN /\ last' = Response("terminate_session", credentials, request,
                                   session_id, auth, auth.http, 0)
               /\ UNCHANGED sessions
          ELSE IF r.ok
          THEN /\ sessions' = sessions_after_terminate(session_id)
               /\ last' = Response("terminate_session", credentials, request,
                                   session_id, auth, SuccessResponse(204), 0)
          ELSE /\ last' = Response("terminate_session", credentials, request,
                                   session_id, auth, NotFoundResponse(r), 0)
               /\ UNCHANGED sessions
       /\ UNCHANGED <<now, ticks, users, permissions, user_permissions,
                      next_session_id, call, inflight, entities>>

\* DELETE /session/user/{user_id}/all
TerminateUserAllSessions(credentials, request, user_id) ==
    Idle /\
    LET auth == AuthorizeAnyOf(credentials, request,
                               << <<"session:delete:any">>, <<"session:delete:self">> >>)
    IN /\ IF ~auth.ok
          THEN /\ last' = Response("terminate_user_all_sessions", credentials,
                                   request, user_id, auth, auth.http, 0)
               /\ UNCHANGED sessions
          ELSE IF /\ InGroup("session:delete:self", auth.matched)
                  /\ user_id # auth.session.user_id
          THEN /\ last' = Response("terminate_user_all_sessions", credentials,
                                   request, user_id, auth,
                                   NotEnoughPermissionsResponse, 0)
               /\ UNCHANGED sessions
          ELSE /\ sessions' = sessions_after_terminate_all(user_id)
               /\ last' = Response("terminate_user_all_sessions", credentials,
                                   request, user_id, auth, SuccessResponse(204), 0)
       /\ UNCHANGED <<now, ticks, users, permissions, user_permissions,
                      next_session_id, call, inflight, entities>>

\* DELETE /session/clean
CleanExpiredSessions(credentials, request) ==
    Idle /\
    LET auth == AuthorizeAll(credentials, request, <<"session:delete:expired">>)
    IN /\ IF ~auth.ok
          THEN /\ last' = Response("clean_expired_sessions", credentials, request,
                                   0, auth, auth.http, 0)
               /\ UNCHANGED sessions
          ELSE /\ sessions' = sessions_after_clean_expired
               /\ last' = Response("clean_expired_sessions", credentials, request,
                                   0, auth, SuccessResponse(204), 0)
       /\ UNCHANGED <<now, ticks, users, permissions, user_permissions,
                      next_session_id, call, inflight, entities>>

----------------------------------------------------------------------------
(* User endpoints (users/views.py) *)

\* the contact numbers an update can carry ("" when the field is omitted)
ContactNumbers == {"", "+91 90000 00009"}

\* UserRepository.update(uid, None, contact_no, None): the outcome
update(uid, contact_no) ==
    IF ~is_active_user(uid)
    THEN Raise("UserNotFound", "user_id")
    ELSE IF /\ contact_no # ""
            /\ \E u \in DOMAIN users : u # uid /\ users[u].contact_no = contact_no
    THEN Raise("UniqueViolationError", "uniq_users_contact_no")
    ELSE Return(uid)

\* the users table after update's UPDATE (COALESCE keeps an omitted field)
users_after_update(uid, contact_no) ==
    [users EXCEPT ![uid].contact_no =
        IF contact_no = "" THEN users[uid].contact_no ELSE contact_no]

\* PATCH /user/{user_id}
UpdateUser(credentials, request, user_id, contact_no) ==
    Idle /\
    LET auth == AuthorizeAnyOf(credentials, request,
                               << <<"user:update:any">>, <<"user:update:self">> >>)
        r == update(user_id, contact_no)
    IN /\ IF ~auth.ok
          THEN /\ last' = Response("update_user", credentials, request, user_id,
                                   auth, auth.http, 0)
               /\ UNCHANGED users
          ELSE IF /\ InGroup("user:update:self", auth.matched)
                  /\ user_id # auth.session.user_id
          \* "return NotEnoughPermissionsException()": the exception object is
          \* returned, not raised, so the route answers with its declared 204
          THEN /\ last' = Response("update_user", credentials, request, user_id,
                                   auth, SuccessResponse(204), 0)
               /\ UNCHANGED users
          ELSE IF r.ok
          THEN /\ users' = users_after_update(user_id, contact_no)
               /\ last' = Response("update_user", credentials, request, user_id,
                                   auth, SuccessResponse(204), 0)
          ELSE IF r.error = "UserNotFound"
          THEN /\ last' = Response("update_user", credentials, request, user_id,
                                   auth, NotFoundResponse(r), 0)
               /\ UNCHANGED users
          ELSE /\ last' = Response("update_user", credentials, request, user_id,
                                   auth, InternalErrorResponse(r.error), 0)
               /\ UNCHANGED users
       /\ UNCHANGED <<now, ticks, permissions, user_permissions, sessions,
                      next_session_id, call, inflight, entities>>

\* UserRepository.grant_permissions: the outcome of the INSERTs (the foreign
\* keys of user_permissions, in the order the table declares them)
grant_permissions(user_id, permission_list) ==
    IF permission_list # <<>> /\ user_id \notin DOMAIN users
    THEN Raise("UserNotFound", "user_id")
    ELSE IF \E i \in 1..Len(permission_list) : permission_list[i] \notin permissions
    THEN Raise("PermissionNotFound", "permission")
    ELSE Return(user_id)

\* user_permissions after grant_permissions (ON CONFLICT DO NOTHING)
user_permissions_after_grant(user_id, permission_list) ==
    user_permissions \cup
        {<<user_id, permission_list[i]>> : i \in 1..Len(permission_list)}

\* user_permissions after revoke_permissions' DELETE
user_permissions_after_revoke(user_id, permission_list) ==
    user_permissions \
        {<<user_id, permission_list[i]>> : i \in 1..Len(permission_list)}

\* UserRepository.revoke_permissions: the outcome
revoke_permissions(user_id, permission_list) ==
    IF /\ user_permissions_after_revoke(user_id, permission_list) = user_permissions
       /\ ~is_active_user(user_id)
    THEN Raise("UserNotFound", "user_id")
    ELSE Return(user_id)

\* the users table after UserRepository.delete's UPDATE
users_after_delete(uid) ==
    [u \in DOMAIN users |->
        IF u = uid THEN [users[u] EXCEPT !.is_active = FALSE] ELSE users[u]]

\* the permission lists a grant or revoke request can carry
PermissionLists ==
    { <<"user:update:any">>, <<"user:update:self">>, <<"no:such:permission">> }

\* POST /user/{user_id}/permissions/grant
GrantUserPermissions(credentials, request, user_id, permission_list) ==
    Idle /\
    LET auth == AuthorizeAll(credentials, request, <<"user:grant_permission">>)
        r == grant_permissions(user_id, permission_list)
    IN /\ IF ~auth.ok
          THEN /\ last' = Response("grant_user_permissions", credentials, request,
                                   user_id, auth, auth.http, 0)
               /\ UNCHANGED user_permissions
          ELSE IF r.ok
          THEN /\ user_permissions' =
                      user_permissions_after_grant(user_id, permission_list)
               /\ last' = Response("grant_user_permissions", credentials, request,
                                   user_id, auth, SuccessResponse(204), 0)
          ELSE /\ last' = Response("grant_user_permissions", credentials, request,
                                   user_id, auth, NotFoundResponse(r), 0)
               /\ UNCHANGED user_permissions
       /\ UNCHANGED <<now, ticks, users, permissions, sessions, next_session_id,
                      call, inflight, entities>>

\* POST /user/{user_id}/permissions/revoke
RevokeUserPermissions(credentials, request, user_id, permission_list) ==
    Idle /\
    LET auth == AuthorizeAll(credentials, request, <<"user:revoke_permission">>)
        r == revoke_permissions(user_id, permission_list)
    IN /\ IF ~auth.ok
          THEN /\ last' = Response("revoke_user_permissions", credentials, request,
                                   user_id, auth, auth.http, 0)
               /\ UNCHANGED user_permissions
          ELSE IF r.ok
          THEN /\ user_permissions' =
                      user_permissions_after_revoke(user_id, permission_list)
               /\ last' = Response("revoke_user_permissions", credentials, request,
                                   user_id, auth, SuccessResponse(204), 0)
          ELSE /\ last' = Response("revoke_user_permissions", credentials, request,
                                   user_id, auth, NotFoundResponse(r), 0)
               /\ UNCHANGED user_permissions
       /\ UNCHANGED <<now, ticks, users, permissions, sessions, next_session_id,
                      call, inflight, entities>>

\* DELETE /user/{user_id}
DeleteUser(credentials, request, user_id) ==
    Idle /\
    LET auth == AuthorizeAll(credentials, request, <<"user:delete">>)
    IN /\ IF ~auth.ok
          THEN /\ last' = Response("delete_user", credentials, request, user_id,
                                   auth, auth.http, 0)
               /\ UNCHANGED users
          ELSE /\ users' = users_after_delete(user_id)
               /\ last' = Response("delete_user", credentials, request, user_id,
                                   auth, SuccessResponse(204), 0)
       /\ UNCHANGED <<now, ticks, permissions, user_permissions, sessions,
                      next_session_id, call, inflight, entities>>

----------------------------------------------------------------------------
(* Specification of the session store and the endpoints over it *)

Next ==
    \/ Deliver
    \/ \E d \in TickSteps : Tick(d)
    \/ \E e \in LoginEmails, p \in LoginPasswords, o \in Origins : Login(e, p, o)
    \/ \E c \in Credentials : Logout(c)
    \/ \E c \in Credentials : RefreshSession(c, AnyOrigin)
    \/ \E c \in Credentials, o \in Origins, s \in SessionIds : GetSessionById(c, o, s)
    \/ \E c \in Credentials, o \in Origins, s \in SessionIds : TerminateSession(c, o, s)
    \/ \E c \in Credentials, o \in Origins, u \in UserIds :
          TerminateUserAllSessions(c, o, u)
    \/ \E c \in Credentials, o \in Origins : CleanExpiredSessions(c, o)

Spec == Init /\ [][Next]_vars

----------------------------------------------------------------------------
(* Specification of the user endpoints: profile update, grants, soft delete *)

\* the origin every request of this specification comes from
HomeOrigin == [forwarded_for |-> <<>>, real_ip |-> <<>>, client |-> "10.0.0.1"]

\* the users a request of this specification names
KnownUserIds == {1, 2}

NextUsers ==
    \/ Deliver
    \/ \E e \in LoginEmails, p \in LoginPasswords : Login(e, p, HomeOrigin)
    \/ \E c \in Credentials, u \in UserIds : TerminateUserAllSessions(c, HomeOrigin, u)
    \/ \E c \in Credentials, u \in UserIds, n \in ContactNumbers :
          UpdateUser(c, HomeOrigin, u, n)
    \/ \E c \in Credentials, u \in UserIds, l \in PermissionLists :
          GrantUserPermissions(c, HomeOrigin, u, l)
    \/ \E c \in Credentials, u \in UserIds, l \in PermissionLists :
          RevokeUserPermissions(c, HomeOrigin, u, l)
    \/ \E c \in Credentials, u \in KnownUserIds : DeleteUser(c, HomeOrigin, u)

SpecUsers == Init /\ [][NextUsers]_vars

----------------------------------------------------------------------------
(* Specification of the permission authority alone: RequiresPermission and  *)
(* RequiresAnyOfGivenPermission applied to every declared requirement and   *)
(* every held permission set within the bounds                              *)

Slugs == {"a", "b", "c"}

\* the sequences over S of length at most n
SeqsUpTo(S, n) == UNION {[1..k -> S] : k \in 0..n}

\* the groups an endpoint can declare
DeclaredGroups == SeqsUpTo(Slugs, MaxGroupLen)

\* RequiresPermission(*required_permissions) called with an identity holding held
CallRequiresPermission(required_permissions, held) ==
    /\ call = NoCall
    /\ call' = [op |-> "RequiresPermission",
                groups |-> <<required_permissions>>,
                held |-> held,
                result |-> RequiresPermission(required_permissions, held)]
    /\ UNCHANGED <<now, ticks, users, permissions, user_permissions, sessions,
                   next_session_id, last, inflight, entities>>

\* RequiresAnyOfGivenPermission(*groups) called with an identity holding held
CallRequiresAnyOfGivenPermission(groups, held) ==
    /\ call = NoCall
    /\ call' = [op |-> "RequiresAnyOfGivenPermission",
                groups |-> groups,
                held |-> held,
                result |-> RequiresAnyOfGivenPermission(groups, held)]
    /\ UNCHANGED <<now, ticks, users, permissions, user_permissions, sessions,
                   next_session_id, last, inflight, entities>>

\* the dependency has answered: the request goes on, or ends with the error
AuthorityDone ==
    /\ call # NoCall
    /\ call' = NoCall
    /\ UNCHANGED <<now, ticks, users, permissions, user_permissions, sessions,
                   next_session_id, last, inflight, entities>>

NextAuthority ==
    \/ AuthorityDone
    \/ \E r \in DeclaredGroups, h \in SUBSET Slugs : CallRequiresPermission(r, h)
    \/ \E g \in SeqsUpTo(DeclaredGroups, MaxGroups), h \in SUBSET Slugs :
          CallRequiresAnyOfGivenPermission(g, h)

SpecAuthority == Init /\ [][NextAuthority]_vars

----------------------------------------------------------------------------
(* Specification of a logout and a refresh of the same session handled       *)
(* concurrently: each request has passed get_session_id and holds its own    *)
(* connection; each executes its single UPDATE statement as one step, in     *)
(* either order, while the clock may advance between the two.                *)

\* POST /auth/logout and POST /auth/refresh arrive with the bearer token of
\* the valid session session_id
BeginRace(session_id) ==
    /\ Idle
    /\ inflight = NoRace
    /\ get_by_id(session_id).ok
    /\ inflight' = [NoRace EXCEPT !.session_id = session_id,
                                  !.before = sessions[session_id]]
    /\ UNCHANGED <<now, ticks, users, permissions, user_permissions, sessions,
                   next_session_id, last, call, entities>>

\* logout executes SessionRepository.terminate
RaceTerminate ==
    /\ inflight # NoRace
    /\ inflight.logout = Pending
    /\ LET r == terminate(inflight.session_id)
       IN /\ sessions' = IF r.ok
                         THEN sessions_after_terminate(inflight.session_id)
                         ELSE sessions
          /\ inflight' = [inflight EXCEPT
                             !.logout = IF r.ok THEN SuccessResponse(204)
                                        ELSE NotFoundResponse(r),
                             !.order = Append(@, "terminate")]
    /\ UNCHANGED <<now, ticks, users, permissions, user_permissions,
                   next_session_id, last, call, entities>>

\* refresh_session executes SessionRepository.refresh
RaceRefresh ==
    /\ inflight # NoRace
    /\ inflight.refresh = Pending
    /\ LET expires_at == refresh(inflight.session_id)
       IN /\ sessions' = sessions_after_refresh(inflight.session_id)
          /\ inflight' = [inflight EXCEPT
                             !.refresh = IF expires_at.ok THEN SuccessResponse(200)
                                         ELSE NotFoundResponse(expires_at),
                             !.value = IF expires_at.ok THEN expires_at.value ELSE 0,
                             !.order = Append(@, "refresh")]
    /\ UNCHANGED <<now, ticks, users, permissions, user_permissions,
                   next_session_id, last, call, entities>>

\* both requests have been answered
RaceDone == inflight.logout # Pending /\ inflight.refresh # Pending

\* both responses are sent to their clients
RaceEnd ==
    /\ RaceDone
    /\ inflight' = NoRace
    /\ UNCHANGED <<now, ticks, users, permissions, user_permissions, sessions,
                   next_session_id, last, call, entities>>

NextRace ==
    \/ Deliver
    \/ \E d \in TickSteps : Tick(d)
    \/ \E e \in LoginEmails, p \in LoginPasswords : Login(e, p, HomeOrigin)
    \/ \E s \in SessionIds : BeginRace(s)
    \/ RaceTerminate
    \/ RaceRefresh
    \/ RaceEnd

SpecRace == Init /\ [][NextRace]_vars

----------------------------------------------------------------------------
(* Specification of the purge sweep run again and again: sessions are        *)
(* created, refreshed and terminated, the clock advances, and                *)
(* SessionRepository.clean_expired keeps being called (weak fairness).       *)

\* one run of the sweep: SessionRepository.clean_expired
PurgeSweep ==
    /\ sessions' = sessions_after_clean_expired
    /\ UNCHANGED <<now, ticks, users, permissions, user_permissions,
                   next_session_id, last, call, inflight, entities>>

NextSweep ==
    \/ Deliver
    \/ \E d \in TickSteps : Tick(d)
    \/ \E e \in LoginEmails, p \in LoginPasswords : Login(e, p, HomeOrigin)
    \/ \E c \in Credentials : Logout(c)
    \/ \E c \in Credentials : RefreshSession(c, AnyOrigin)
    \/ PurgeSweep

SpecSweep == Init /\ [][NextSweep]_vars /\ WF_vars(PurgeSweep)

----------------------------------------------------------------------------
(* Permission catalog (permissions/repository.py, permissions/views.py) and  *)
(* the specification of catalog maintenance together with grants and revokes *)

\* a handler's "except ... as e" branch answering 409 with e.context
ConflictResponse(e) == [status |-> 409, error |-> e.error, context |-> e.parameter]

\* PermissionRepository.create: the outcome (pk_permissions must hold)
PermissionRepository_create(slug) ==
    IF slug \in permissions
    THEN Raise("PermissionAlreadyExists", "slug")
    ELSE Return(slug)

\* PermissionRepository.delete, mutated: the foreign key of user_permissions
\* does not stop the DELETE
PermissionRepository_delete_unchecked(slug) == Return(slug)

\* PermissionRepository.delete: the outcome (fk_user_permissions_permissions,
\* ON DELETE NO ACTION, must hold)
PermissionRepository_delete(slug) ==
    IF \E g \in user_permissions : g[2] = slug
    THEN Raise("PermissionStillReferenced", "users")
    ELSE Return(slug)

\* the slugs a catalog request can name
RequestSlugs == {"report:read", "user:update:self", "permission:delete"}

\* the permission lists a grant or revoke request of this specification carries
CatalogLists ==
    { <<"report:read">>, <<"user:update:self">>,
      <<"report:read", "no:such:permission">> }

\* POST /permission
CreatePermission(credentials, request, slug) ==
    Idle /\
    LET auth == AuthorizeAll(credentials, request, <<"permission:create">>)
        r == PermissionRepository_create(slug)
    IN /\ IF ~auth.ok
          THEN /\ last' = Response("create_permission", credentials, request,
                                   slug, auth, auth.http, 0)
               /\ UNCHANGED permissions
          ELSE IF r.ok
          THEN /\ permissions' = permissions \cup {slug}
               /\ last' = Response("create_permission", credentials, request,
                                   slug, auth, SuccessResponse(204), 0)
          ELSE /\ last' = Response("create_permission", credentials, request,
                                   slug, auth, ConflictResponse(r), 0)
               /\ UNCHANGED permissions
       /\ UNCHANGED <<now, ticks, users, user_permissions, sessions,
                      next_session_id, call, inflight, entities>>

\* DELETE /permission/{slug}
DeletePermission(credentials, request, slug) ==
    Idle /\
    LET auth == AuthorizeAll(credentials, request, <<"permission:delete">>)
        r == PermissionRepository_delete(slug)
    IN /\ IF ~auth.ok
          THEN /\ last' = Response("delete_permission", credentials, request,
                                   slug, auth, auth.http, 0)
               /\ UNCHANGED permissions
          ELSE IF r.ok
          THEN /\ permissions' = permissions \ {slug}
               /\ last' = Response("delete_permission", credentials, request,
                                   slug, auth, SuccessResponse(204), 0)
          ELSE /\ last' = Response("delete_permission", credentials, request,
                                   slug, auth, ConflictResponse(r), 0)
               /\ UNCHANGED permissions
       /\ UNCHANGED <<now, ticks, users, user_permissions, sessions,
                      next_session_id, call, inflight, entities>>

NextCatalog ==
    \/ Deliver
    \/ \E e \in LoginEmails, p \in LoginPasswords : Login(e, p, HomeOrigin)
    \/ \E c \in Credentials, g \in RequestSlugs : CreatePermission(c, HomeOrigin, g)
    \/ \E c \in Credentials, g \in RequestSlugs : DeletePermission(c, HomeOrigin, g)
    \/ \E c \in Credentials, u \in UserIds, l \in CatalogLists :
          GrantUserPermissions(c, HomeOrigin, u, l)
    \/ \E c \in Credentials, u \in UserIds, l \in CatalogLists :
          RevokeUserPermissions(c, HomeOrigin, u, l)

SpecCatalog == Init /\ [][NextCatalog]_vars

----------------------------------------------------------------------------
(* Password change (users/views.py) and its specification                    *)

\* UserRepository.get_by_id: the id of the active user, or UserNotFound
UserRepository_get_by_id(uid) ==
    IF is_active_user(uid)
    THEN Return(uid)
    ELSE Raise("UserNotFound", "user_id")

\* the passwords a password change can carry
ChangePasswords == {"Bob@123", "Bob@456"}

\* the users table after UserRepository.update(uid, hashed_password, None, None)
users_after_password_update(uid, hashed_password) ==
    [users EXCEPT ![uid].password = hashed_password]

\* PATCH /user/{user_id}/password
UpdateUserPassword(credentials, request, user_id, current_password, new_password) ==
    Idle /\
    LET auth == AuthorizeAnyOf(credentials, request,
                               << <<"user:update:any">>, <<"user:update:self">> >>)
        record == UserRepository_get_by_id(user_id)
    IN /\ IF ~auth.ok
          THEN /\ last' = Response("update_user_password", credentials, request,
                                   user_id, auth, auth.http, 0)
               /\ UNCHANGED users
          ELSE IF /\ InGroup("user:update:self", auth.matched)
                  /\ user_id # auth.session.user_id
          THEN /\ last' = Response("update_user_password", credentials, request,
                                   user_id, auth, NotEnoughPermissionsResponse, 0)
               /\ UNCHANGED users
          ELSE IF ~record.ok
          THEN /\ last' = Response("update_user_password", credentials, request,
                                   user_id, auth, NotFoundResponse(record), 0)
               /\ UNCHANGED users
          ELSE IF ~verify_password(users[user_id].password, current_password)
          THEN /\ last' = Response("update_user_password", credentials, request,
                                   user_id, auth,
                                   [status |-> 400, error |-> "PasswordIncorrect",
                                    context |-> "none"], 0)
               /\ UNCHANGED users
          ELSE /\ users' = users_after_password_update(user_id,
                                                       hash_password(new_password))
               /\ last' = Response("update_user_password", credentials, request,
                                   user_id, auth, SuccessResponse(204), 0)
       /\ UNCHANGED <<now, ticks, permissions, user_permissions, sessions,
                      next_session_id, call, inflight, entities>>

NextPassword ==
    \/ Deliver
    \/ \E e \in LoginEmails, p \in LoginPasswords \cup ChangePasswords :
          Login(e, p, HomeOrigin)
    \/ \E c \in Credentials, s \in SessionIds : GetSessionById(c, HomeOrigin, s)
    \/ \E c \in Credentials, u \in UserIds :
          TerminateUserAllSessions(c, HomeOrigin, u)
    \/ \E c \in Credentials, u \in UserIds, p \in ChangePasswords, q \in ChangePasswords :
          UpdateUserPassword(c, HomeOrigin, u, p, q)

SpecPassword == Init /\ [][NextPassword]_vars

-----------------------------------------------------------------------------
(* Accounts and profiles: user, student, staff and parent creation *)

MaxUsers == 5

\* uuid7(): an id no row has
NewUserId == Cardinality(DOMAIN users) + 1

\* UserRepository.create: the outcome of the INSERT (uniq_users_email_id and
\* uniq_users_contact_no bind every row, active or not)
UserRepository_create(email_id, contact_no) ==
    IF \E u \in DOMAIN users : users[u].email_id = email_id
    THEN Raise("UserAlreadyExists", "email_id")
    ELSE IF \E u \in DOMAIN users : users[u].contact_no = contact_no
    THEN Raise("UserAlreadyExists", "contact_no")
    ELSE Return(NewUserId)

\* table users once the INSERT of UserRepository.create has run
users_after_create(uid, email_id, password, contact_no) ==
    [u \in DOMAIN users \cup {uid} |->
        IF u = uid
        THEN [email_id |-> email_id, password |-> password,
              contact_no |-> contact_no, is_active |-> TRUE,
              profile_image_id |-> 0]
        ELSE users[u]]

\* the "except UserAlreadyExistsException" branch of the profile endpoints:
\* the existing user is looked up by the parameter the INSERT reported;
\* UserRepository has no get_by_contact_no, so that lookup raises
existing_user(e, email_id) ==
    IF e.parameter = "email_id"
    THEN get_by_email_id(email_id)
    ELSE Raise("AttributeError", "get_by_contact_no")

\* leaving "async with connection.transaction()" without an exception,
\* mutated: what the transaction wrote is kept although a statement failed
commit_ignoring_abort(before, written, aborted) == written

\* leaving "async with connection.transaction()" without an exception: COMMIT,
\* which the server turns into a rollback when a statement of the transaction
\* has failed
commit(before, written, aborted) == IF aborted THEN before ELSE written

\* StudentRepository.create: the outcome of the INSERT run with table users as
\* the transaction sees it
StudentRepository_create(visible_users, user_id, aadhaar_no, apaar_id) ==
    IF user_id \in DOMAIN students
    THEN Raise("StudentAlreadyExists", "user_id")
    ELSE IF \E i \in DOMAIN students : students[i].aadhaar_no = aadhaar_no
    THEN Raise("StudentAlreadyExists", "aadhaar_no")
    ELSE IF \E i \in DOMAIN students : students[i].apaar_id = apaar_id
    THEN Raise("StudentAlreadyExists", "apaar_id")
    ELSE IF user_id \notin DOMAIN visible_users
    THEN Raise("UserNotFound", "user_id")
    ELSE Return(user_id)

\* StaffRepository.create
StaffRepository_create(visible_users, user_id) ==
    IF user_id \in DOMAIN staff
    THEN Raise("StaffAlreadyExists", "user_id")
    ELSE IF user_id \notin DOMAIN visible_users
    THEN Raise("UserNotFound", "user_id")
    ELSE Return(user_id)

\* ParentRepository.create
ParentRepository_create(visible_users, user_id, fathers_email_id, mothers_email_id) ==
    IF user_id \in DOMAIN parents
    THEN Raise("ParentAlreadyExists", "user_id")
    ELSE IF \E i \in DOMAIN parents : parents[i].fathers_email_id = fathers_email_id
    THEN Raise("ParentAlreadyExists", "fathers_email_id")
    ELSE IF \E i \in DOMAIN parents : parents[i].mothers_email_id = mothers_email_id
    THEN Raise("ParentAlreadyExists", "mothers_email_id")
    ELSE IF user_id \notin DOMAIN visible_users
    THEN Raise("UserNotFound", "user_id")
    ELSE Return(user_id)

\* a profile table with the row of id added
with_row(table, id, row) ==
    [i \in DOMAIN table \cup {id} |-> IF i = id THEN row ELSE table[i]]

\* the first step of create_student, create_staff and create_parent: the
\* user INSERT inside its savepoint, or the lookup of the existing user.
\* inserted tells whether a new row was written, written is table users as
\* the transaction then sees it.
backing_user(email_id, password, contact_no) ==
    LET created == UserRepository_create(email_id, contact_no)
    IN IF created.ok
       THEN [user |-> created, inserted |-> TRUE,
             written |-> users_after_create(created.value, email_id, password,
                                            contact_no)]
       ELSE [user |-> existing_user(created, email_id), inserted |-> FALSE,
             written |-> users]

\* the request bodies of the model
StudentBodies ==
    { [email_id |-> "carol@cms.com", contact_no |-> "+91 90000 00003",
       aadhaar_no |-> "111111111111", apaar_id |-> "111111111111"],
      [email_id |-> "Dave@cms.com", contact_no |-> "+91 90000 00004",
       aadhaar_no |-> "111111111111", apaar_id |-> "222222222222"],
      [email_id |-> "bob@cms.com", contact_no |-> "+91 90000 00002",
       aadhaar_no |-> "333333333333", apaar_id |-> "333333333333"] }

StaffBodies ==
    { [email_id |-> "Erin@cms.com", contact_no |-> "+91 90000 00005"],
      [email_id |-> "bob@cms.com", contact_no |-> "+91 90000 00002"],
      [email_id |-> "frank@cms.com", contact_no |-> "+91 90000 00002"] }

ParentBodies ==
    { [fathers_email_id |-> "Gary@cms.com", fathers_contact_no |-> "+91 90000 00006",
       mothers_email_id |-> "mary@cms.com"],
      [fathers_email_id |-> "hank@cms.com", fathers_contact_no |-> "+91 90000 00007",
       mothers_email_id |-> "mary@cms.com"] }

UserBodies ==
    { [email_id |-> "Dave@cms.com", password |-> "Dave@123",
       contact_no |-> "+91 90000 00004"],
      [email_id |-> "bob@cms.com", password |-> "Bob@123",
       contact_no |-> "+91 90000 00008"] }

\* POST /student; other_error is a database error of the profile INSERT that
\* no "except" clause names
CreateStudent(credentials, request, body, other_error) ==
    Idle /\
    LET auth == AuthorizeAll(credentials, request, <<"student:create">>)
        b == backing_user(body.email_id, hash_password("Student@123"),
                          body.contact_no)
        r == IF other_error
             THEN Raise("PostgresError", "none")
             ELSE StudentRepository_create(b.written, b.user.value,
                                           body.aadhaar_no, body.apaar_id)
    IN /\ IF ~auth.ok
          THEN /\ last' = Response("create_student", credentials, request, 0,
                                   auth, auth.http, 0)
               /\ UNCHANGED <<users, students>>
          ELSE IF ~b.user.ok
          THEN /\ last' = Response("create_student", credentials, request, 0,
                                   auth, InternalErrorResponse(b.user.error), 0)
               /\ UNCHANGED <<users, students>>
          ELSE IF r.ok
          THEN /\ Cardinality(DOMAIN users) < MaxUsers
               /\ users' = commit(users, b.written, FALSE)
               /\ students' = commit(students,
                                     with_row(students, r.value,
                                              [aadhaar_no |-> body.aadhaar_no,
                                               apaar_id |-> body.apaar_id]),
                                     FALSE)
               /\ last' = Response("create_student", credentials, request,
                                   b.user.value, auth, SuccessResponse(201), r.value)
          ELSE IF r.error = "StudentAlreadyExists"
          THEN /\ users' = commit(users, b.written, TRUE)
               /\ students' = commit(students, students, TRUE)
               /\ last' = Response("create_student", credentials, request,
                                   b.user.value, auth, ConflictResponse(r),
                                   b.inserted)
          ELSE /\ last' = Response("create_student", credentials, request,
                                   b.user.value, auth,
                                   InternalErrorResponse(r.error), b.inserted)
               /\ UNCHANGED <<users, students>>
       /\ UNCHANGED <<now, ticks, permissions, user_permissions, sessions,
                      next_session_id, call, inflight, staff, parents, schools,
                      objects, in_use, pending>>

\* POST /staff
CreateStaff(credentials, request, body, other_error) ==
    Idle /\
    LET auth == AuthorizeAll(credentials, request, <<"staff:create">>)
        b == backing_user(body.email_id, hash_password("Staff@123"),
                          body.contact_no)
        r == IF other_error
             THEN Raise("PostgresError", "none")
             ELSE StaffRepository_create(b.written, b.user.value)
    IN /\ IF ~auth.ok
          THEN /\ last' = Response("create_staff", credentials, request, 0,
                                   auth, auth.http, 0)
               /\ UNCHANGED <<users, staff>>
          ELSE IF ~b.user.ok
          THEN /\ last' = Response("create_staff", credentials, request, 0,
                                   auth, InternalErrorResponse(b.user.error), 0)
               /\ UNCHANGED <<users, staff>>
          ELSE IF r.ok
          THEN /\ Cardinality(DOMAIN users) < MaxUsers
               /\ users' = commit(users, b.written, FALSE)
               /\ staff' = commit(staff,
                                  with_row(staff, r.value,
                                           [position |-> "Lecturer",
                                            is_active |-> TRUE]),
                                  FALSE)
               /\ last' = Response("create_staff", credentials, request,
                                   b.user.value, auth, SuccessResponse(201), r.value)
          ELSE IF r.error = "StaffAlreadyExists"
          THEN /\ users' = commit(users, b.written, TRUE)
               /\ staff' = commit(staff, staff, TRUE)
               /\ last' = Response("create_staff", credentials, request,
                                   b.user.value, auth, ConflictResponse(r),
                                   b.inserted)
          ELSE /\ last' = Response("create_staff", credentials, request,
                                   b.user.value, auth,
                                   InternalErrorResponse(r.error), b.inserted)
               /\ UNCHANGED <<users, staff>>
       /\ UNCHANGED <<now, ticks, permissions, user_permissions, sessions,
                      next_session_id, call, inflight, students, parents, schools,
                      objects, in_use, pending>>

\* POST /parent
CreateParent(credentials, request, body, other_error) ==
    Idle /\
    LET auth == AuthorizeAll(credentials, request, <<"parent:create">>)
        b == backing_user(body.fathers_email_id, hash_password("Parent@123"),
                          body.fathers_contact_no)
        r == IF other_error
             THEN Raise("PostgresError", "none")
             ELSE ParentRepository_create(b.written, b.user.value,
                                          body.fathers_email_id,
                                          body.mothers_email_id)
    IN /\ IF ~auth.ok
          THEN /\ last' = Response("create_parent", credentials, request, 0,
                                   auth, auth.http, 0)
               /\ UNCHANGED <<users, parents>>
          ELSE IF ~b.user.ok
          THEN /\ last' = Response("create_parent", credentials, request, 0,
                                   auth, InternalErrorResponse(b.user.error), 0)
               /\ UNCHANGED <<users, parents>>
          ELSE IF r.ok
          THEN /\ Cardinality(DOMAIN users) < MaxUsers
               /\ users' = commit(users, b.written, FALSE)
               /\ parents' = commit(parents,
                                    with_row(parents, r.value,
                                             [fathers_email_id |-> body.fathers_email_id,
                                              mothers_email_id |-> body.mothers_email_id]),
                                    FALSE)
               /\ last' = Response("create_parent", credentials, request,
                                   b.user.value, auth, SuccessResponse(201), r.value)
          ELSE IF r.error = "ParentAlreadyExists"
          THEN /\ users' = commit(users, b.written, TRUE)
               /\ parents' = commit(parents, parents, TRUE)
               /\ last' = Response("create_parent", credentials, request,
                                   b.user.value, auth, ConflictResponse(r),
                                   b.inserted)
          ELSE /\ last' = Response("create_parent", credentials, request,
                                   b.user.value, auth,
                                   InternalErrorResponse(r.error), b.inserted)
               /\ UNCHANGED <<users, parents>>
       /\ UNCHANGED <<now, ticks, permissions, user_permissions, sessions,
                      next_session_id, call, inflight, students, staff, schools,
                      objects, in_use, pending>>

\* POST /user
CreateUser(credentials, request, body) ==
    Idle /\
    LET auth == AuthorizeAll(credentials, request, <<"user:create">>)
        email_id == lower(body.email_id)
        r == UserRepository_create(email_id, body.contact_no)
    IN /\ IF ~auth.ok
          THEN /\ last' = Response("create_user", credentials, request, 0,
                                   auth, auth.http, 0)
               /\ UNCHANGED users
          ELSE IF r.ok
          THEN /\ Cardinality(DOMAIN users) < MaxUsers
               /\ users' = users_after_create(r.value, email_id,
                                              hash_password(body.password),
                                              body.contact_no)
               /\ last' = Response("create_user", credentials, request, r.value,
                                   auth, SuccessResponse(201), r.value)
          ELSE /\ last' = Response("create_user", credentials, request, 0,
                                   auth, ConflictResponse(r), 0)
               /\ UNCHANGED users
       /\ UNCHANGED <<now, ticks, permissions, user_permissions, sessions,
                      next_session_id, call, inflight, entities>>

\* the credentials a request of this specification carries
ProfileCredentials ==
    { [kind |-> "absent", id |-> 0], [kind |-> "uuid", id |-> 1] }

\* the e-mail addresses and passwords of this specification's logins
ProfileEmails == {"admin@cms.com", "Dave@cms.com", "dave@cms.com", "Erin@cms.com"}

ProfilePasswords == {"Admin@123", "Student@123", "Staff@123"}

NextProfiles ==
    \/ Deliver
    \/ \E e \in ProfileEmails, p \in ProfilePasswords : Login(e, p, HomeOrigin)
    \/ \E c \in ProfileCredentials, b \in StudentBodies, x \in BOOLEAN :
          CreateStudent(c, HomeOrigin, b, x)
    \/ \E c \in ProfileCredentials, b \in StaffBodies, x \in BOOLEAN :
          CreateStaff(c, HomeOrigin, b, x)
    \/ \E c \in ProfileCredentials, b \in ParentBodies, x \in BOOLEAN :
          CreateParent(c, HomeOrigin, b, x)
    \/ \E c \in ProfileCredentials, b \in UserBodies : CreateUser(c, HomeOrigin, b)

SpecProfiles == Init /\ [][NextProfiles]_vars

-----------------------------------------------------------------------------
(* Specification of direct calls of get_client_ip *)

\* the X-Forwarded-For headers of the model
ForwardedForHeaders ==
    { <<>>, <<"">>, <<" ">>, <<"10.0.0.2">>, <<" 10.0.0.2", "10.0.0.1">>,
      <<"::0001">>, <<"bogus">>, <<"", "10.0.0.1">> }

\* the X-Real-IP headers of the model
RealIpHeaders == { <<>>, <<"">>, <<"10.0.0.1">>, <<" ::0001 ">>, <<"bogus">> }

\* request.client.host, "" for a request without a client
ClientHosts == { "", "10.0.0.1", "::0001", "testclient", "unknown" }

Requests ==
    [forwarded_for : ForwardedForHeaders, real_ip : RealIpHeaders, client : ClientHosts]

\* get_client_ip(request) called
CallGetClientIp(request) ==
    /\ call = NoCall
    /\ call' = [op |-> "get_client_ip", groups |-> <<>>, held |-> {},
                request |-> request, result |-> Return(get_client_ip(request))]
    /\ UNCHANGED <<now, ticks, users, permissions, user_permissions, sessions,
                   next_session_id, last, inflight, entities>>

NextClientIp ==
    \/ AuthorityDone
    \/ \E r \in Requests : CallGetClientIp(r)

SpecClientIp == Init /\ [][NextClientIp]_vars

-----------------------------------------------------------------------------
(* Schools (schools/views.py, schools/repository.py). A self-scoped request  *)
(* awaits two statements on its connection, the ownership check and the      *)
(* mutation, outside any transaction: other requests are handled in between. *)

SchoolIds == {1, 2}

\* UpdateSchoolRequest: name ("" when omitted) and dean_id (0 when omitted)
SchoolBodies ==
    { [name |-> "science", dean_id |-> 0], [name |-> "", dean_id |-> 1],
      [name |-> "", dean_id |-> 3] }

\* initcap() on the school names of the model
initcap(name) == IF name = "science" THEN "Science" ELSE name

\* SchoolRepository.get_by_id
SchoolRepository_get_by_id(uid) ==
    IF uid \in DOMAIN schools /\ schools[uid].is_active = TRUE
    THEN Return(schools[uid])
    ELSE Raise("SchoolNotFound", "school_id")

\* SchoolRepository.update: the outcome of the UPDATE
SchoolRepository_update(uid, name, dean_id) ==
    IF ~(uid \in DOMAIN schools /\ schools[uid].is_active = TRUE)
    THEN Raise("SchoolNotFound", "school_id")
    ELSE IF /\ name # ""
            /\ \E o \in DOMAIN schools :
                  o # uid /\ schools[o].is_active /\ schools[o].name = initcap(name)
    THEN Raise("SchoolAlreadyExists", "name")
    ELSE IF /\ dean_id # 0
            /\ \E o \in DOMAIN schools :
                  o # uid /\ schools[o].is_active /\ schools[o].dean_id = dean_id
    THEN Raise("SchoolAlreadyExists", "dean_id")
    ELSE IF dean_id # 0 /\ dean_id \notin DOMAIN staff
    THEN Raise("StaffNotFound", "dean_id")
    ELSE Return(uid)

\* table school after update's UPDATE (COALESCE keeps an omitted field); the
\* statement does not look at the caller
schools_after_update(uid, name, dean_id) ==
    [schools EXCEPT
        ![uid].name = IF name = "" THEN schools[uid].name ELSE initcap(name),
        ![uid].dean_id = IF dean_id = 0 THEN schools[uid].dean_id ELSE dean_id]

\* table school after SchoolRepository.delete
schools_after_delete(uid) ==
    IF uid \in DOMAIN schools
    THEN [schools EXCEPT ![uid].is_active = FALSE]
    ELSE schools

\* the response of update_school once SchoolRepository.update has answered r
update_school_response(r) ==
    IF r.ok THEN SuccessResponse(204)
    ELSE IF r.error = "SchoolNotFound" THEN NotFoundResponse(r)
    ELSE IF r.error = "SchoolAlreadyExists" THEN ConflictResponse(r)
    ELSE InternalErrorResponse(r.error)

\* PATCH /school/{school_id}: the dependencies and, for a request that
\* matched the self group, the ownership check; a request that matched the
\* any group goes on to its UPDATE at once
UpdateSchool(credentials, request, school_id, body) ==
    Idle /\
    LET auth == AuthorizeAnyOf(credentials, request,
                               << <<"school:update:any">>, <<"school:update:self">> >>)
        school == SchoolRepository_get_by_id(school_id)
        r == SchoolRepository_update(school_id, body.name, body.dean_id)
    IN /\ IF ~auth.ok
          THEN /\ last' = Response("update_school", credentials, request,
                                   school_id, auth, auth.http, 0)
               /\ UNCHANGED <<schools, pending>>
          ELSE IF InGroup("school:update:self", auth.matched)
          THEN IF ~school.ok
               THEN /\ last' = Response("update_school", credentials, request,
                                        school_id, auth, NotFoundResponse(school), 0)
                    /\ UNCHANGED <<schools, pending>>
               ELSE IF auth.session.user_id # school.value.dean_id
               THEN /\ last' = Response("update_school", credentials, request,
                                        school_id, auth,
                                        NotEnoughPermissionsResponse, 0)
                    /\ UNCHANGED <<schools, pending>>
               ELSE /\ pending = NoPending
                    /\ pending' = [op |-> "update_school",
                                   credentials |-> credentials,
                                   request |-> request, auth |-> auth,
                                   school_id |-> school_id, body |-> body]
                    /\ UNCHANGED <<schools, last>>
          ELSE /\ schools' = IF r.ok
                             THEN schools_after_update(school_id, body.name,
                                                       body.dean_id)
                             ELSE schools
               /\ last' = Response("update_school", credentials, request,
                                   school_id, auth, update_school_response(r), 0)
               /\ UNCHANGED pending
       /\ UNCHANGED <<now, ticks, users, permissions, user_permissions, sessions,
                      next_session_id, call, inflight, students, staff, parents,
                      objects, in_use>>

\* PATCH /school/{school_id}: SchoolRepository.update of the request that
\* passed the ownership check
UpdateSchoolStatement ==
    Idle /\ pending.op = "update_school" /\
    LET r == SchoolRepository_update(pending.school_id, pending.body.name,
                                     pending.body.dean_id)
    IN /\ schools' = IF r.ok
                     THEN schools_after_update(pending.school_id, pending.body.name,
                                               pending.body.dean_id)
                     ELSE schools
       /\ last' = Response("update_school", pending.credentials, pending.request,
                           pending.school_id, pending.auth,
                           update_school_response(r), 0)
       /\ pending' = NoPending
       /\ UNCHANGED <<now, ticks, users, permissions, user_permissions, sessions,
                      next_session_id, call, inflight, students, staff, parents,
                      objects, in_use>>

\* DELETE /school/{school_id}: the dependencies and, for a request that
\* matched the self group, the ownership check
DeleteSchool(credentials, request, school_id) ==
    Idle /\
    LET auth == AuthorizeAnyOf(credentials, request,
                               << <<"school:delete:any">>, <<"school:delete:self">> >>)
        school == SchoolRepository_get_by_id(school_id)
    IN /\ IF ~auth.ok
          THEN /\ last' = Response("delete_school", credentials, request,
                                   school_id, auth, auth.http, 0)
               /\ UNCHANGED <<schools, pending>>
          ELSE IF InGroup("school:delete:self", auth.matched)
          THEN IF ~school.ok
               THEN /\ last' = Response("delete_school", credentials, request,
                                        school_id, auth, SuccessResponse(204), 0)
                    /\ UNCHANGED <<schools, pending>>
               ELSE IF auth.session.user_id # school.value.dean_id
               THEN /\ last' = Response("delete_school", credentials, request,
                                        school_id, auth,
                                        NotEnoughPermissionsResponse, 0)
                    /\ UNCHANGED <<schools, pending>>
               ELSE /\ pending = NoPending
                    /\ pending' = [op |-> "delete_school",
                                   credentials |-> credentials,
                                   request |-> request, auth |-> auth,
                                   school_id |-> school_id,
                                   body |-> [name |-> "", dean_id |-> 0]]
                    /\ UNCHANGED <<schools, last>>
          ELSE /\ schools' = schools_after_delete(school_id)
               /\ last' = Response("delete_school", credentials, request,
                                   school_id, auth, SuccessResponse(204), 0)
               /\ UNCHANGED pending
       /\ UNCHANGED <<now, ticks, users, permissions, user_permissions, sessions,
                      next_session_id, call, inflight, students, staff, parents,
                      objects, in_use>>

\* DELETE /school/{school_id}: SchoolRepository.delete of the request that
\* passed the ownership check
DeleteSchoolStatement ==
    Idle /\ pending.op = "delete_school" /\
    /\ schools' = schools_after_delete(pending.school_id)
    /\ last' = Response("delete_school", pending.credentials, pending.request,
                        pending.school_id, pending.auth, SuccessResponse(204), 0)
    /\ pending' = NoPending
    /\ UNCHANGED <<now, ticks, users, permissions, user_permissions, sessions,
                   next_session_id, call, inflight, students, staff, parents,
                   objects, in_use>>

\* the logins of this specification
SchoolLogins == { <<"admin@cms.com", "Admin@123">>, <<"Bob@cms.com", "Bob@123">> }

NextSchools ==
    \/ Deliver
    \/ \E l \in SchoolLogins : Login(l[1], l[2], HomeOrigin)
    \/ \E c \in Credentials, s \in SchoolIds, b \in SchoolBodies :
          UpdateSchool(c, HomeOrigin, s, b)
    \/ UpdateSchoolStatement
    \/ \E c \in Credentials, s \in SchoolIds : DeleteSchool(c, HomeOrigin, s)
    \/ DeleteSchoolStatement

SpecSchools == Init /\ [][NextSchools]_vars

-----------------------------------------------------------------------------
(* Profile images (users/views.py, bucket profile-img) and the specification *)
(* of the permission-gated endpoints that write                              *)

MaxVersions == 1

\* the uploaded files of the model
Files == {"face.png"}

\* the version id of the latest object stored under the name, 0 for none
version_of(object_name) ==
    IF object_name \in DOMAIN objects THEN objects[object_name].version_id ELSE 0

\* client.put_object on the versioned bucket: a new version under the name
put_object(object_name, file) ==
    [o \in DOMAIN objects \cup {object_name} |->
        IF o = object_name
        THEN [file_name |-> file, version_id |-> version_of(object_name) + 1]
        ELSE objects[o]]

\* bucket profile-img after update_user_profile_image, mutated: the file is
\* stored before the request is authorized
objects_after_profile_image_upload_first(passed, user_id, file) ==
    put_object(user_id, file)

\* bucket profile-img after update_user_profile_image: put_object is reached
\* by a request that passed its dependencies and the ownership check
objects_after_profile_image(passed, user_id, file) ==
    IF passed THEN put_object(user_id, file) ELSE objects

\* PATCH /user/{user_id}/profile_image
UpdateUserProfileImage(credentials, request, user_id, file) ==
    Idle /\
    LET auth == AuthorizeAnyOf(credentials, request,
                               << <<"user:update:any">>, <<"user:update:self">> >>)
        owner_mismatch == /\ InGroup("user:update:self", auth.matched)
                          /\ user_id # auth.session.user_id
        passed == auth.ok /\ ~owner_mismatch
        version_id == version_of(user_id) + 1
    IN /\ version_of(user_id) < MaxVersions
       /\ objects' = objects_after_profile_image(passed, user_id, file)
       /\ IF ~auth.ok
          THEN /\ last' = Response("update_user_profile_image", credentials,
                                   request, user_id, auth, auth.http, 0)
               /\ UNCHANGED users
          ELSE IF owner_mismatch
          THEN /\ last' = Response("update_user_profile_image", credentials,
                                   request, user_id, auth,
                                   NotEnoughPermissionsResponse, 0)
               /\ UNCHANGED users
          ELSE IF is_active_user(user_id)
          THEN /\ users' = [users EXCEPT ![user_id].profile_image_id = version_id]
               /\ last' = Response("update_user_profile_image", credentials,
                                   request, user_id, auth, SuccessResponse(204),
                                   version_id)
          ELSE /\ last' = Response("update_user_profile_image", credentials,
                                   request, user_id, auth,
                                   NotFoundResponse(Raise("UserNotFound", "user_id")),
                                   version_id)
               /\ UNCHANGED users
       /\ UNCHANGED <<now, ticks, permissions, user_permissions, sessions,
                      next_session_id, call, inflight, students, staff, parents,
                      schools, in_use, pending>>

\* the student this specification registers
FrameStudent ==
    [email_id |-> "carol@cms.com", contact_no |-> "+91 90000 00003",
     aadhaar_no |-> "111111111111", apaar_id |-> "111111111111"]

\* the school update this specification requests
FrameSchoolBody == [name |-> "science", dean_id |-> 0]

\* the credentials a request of this specification carries
FrameCredentials ==
    { [kind |-> "absent", id |-> 0], [kind |-> "uuid", id |-> 1],
      [kind |-> "uuid", id |-> 2] }

NextFrame ==
    \/ Deliver
    \/ \E l \in SchoolLogins : Login(l[1], l[2], HomeOrigin)
    \/ \E c \in FrameCredentials : Logout(c)
    \/ \E c \in FrameCredentials, o \in Origins, u \in KnownUserIds, f \in Files :
          UpdateUserProfileImage(c, o, u, f)
    \/ \E c \in FrameCredentials, o \in Origins, u \in KnownUserIds :
          TerminateUserAllSessions(c, o, u)
    \/ \E c \in FrameCredentials, o \in Origins :
          CreateStudent(c, o, FrameStudent, FALSE)
    \/ \E c \in FrameCredentials, o \in Origins :
          UpdateSchool(c, o, 1, FrameSchoolBody)
    \/ UpdateSchoolStatement
    \/ \E c \in FrameCredentials, o \in Origins : DeleteSchool(c, o, 1)
    \/ DeleteSchoolStatement

SpecFrame == Init /\ [][NextFrame]_vars

-----------------------------------------------------------------------------
(* Specification of logins and refreshes sent from the origins of the model *)

NextRefresh ==
    \/ Deliver
    \/ Tick(1)
    \/ \E l \in SchoolLogins, o \in Origins : Login(l[1], l[2], o)
    \/ \E c \in Credentials : Logout(c)
    \/ \E c \in Credentials, o \in Origins : RefreshSession(c, o)
    \/ \E c \in Credentials, o \in Origins, s \in SessionIds : GetSessionById(c, o, s)

SpecRefresh == Init /\ [][NextRefresh]_vars

-----------------------------------------------------------------------------
(* The endpoints declared with alternative groups, and the specification of  *)
(* grants made while sessions are open                                        *)

\* an endpoint declared with RequiresAnyOfGivenPermission(any, self): the
\* declared groups in order, the slug its ownership test looks for in the
\* matched group, and the kind of resource its path names
Alternative(op, resource, any_slug, self_slug) ==
    [op |-> op, resource |-> resource, groups |-> << <<any_slug>>, <<self_slug>> >>,
     self |-> self_slug]

\* an endpoint declared with RequiresAnyOfGivenPermission(first, any, self)
Alternative3(op, resource, first_slug, any_slug, self_slug) ==
    [op |-> op, resource |-> resource,
     groups |-> << <<first_slug>>, <<any_slug>>, <<self_slug>> >>,
     self |-> self_slug]

AlternativeEndpoints ==
    { Alternative("get_user_by_id", "user", "user:read:any", "user:read:self"),
      Alternative("get_user_by_email_id", "user", "user:read:any", "user:read:self"),
      Alternative("get_user_by_contact_no", "user", "user:read:any", "user:read:self"),
      Alternative("update_user", "user", "user:update:any", "user:update:self"),
      Alternative("update_user_password", "user", "user:update:any",
                  "user:update:self"),
      Alternative("update_user_profile_image", "user", "user:update:any",
                  "user:update:self"),
      Alternative("get_user_permissions", "user", "user_permission:read:any",
                  "user_permission:read:self"),
      Alternative("get_parent_by_id", "user", "parent:read:any", "parent:read:self"),
      Alternative("update_parent", "user", "parent:update:any", "parent:update:self"),
      Alternative("get_students", "user", "student:read:any", "student:read:self"),
      Alternative("get_staff_by_id", "user", "staff:read:any", "staff:read:self"),
      Alternative("update_staff", "user", "staff:update:any", "staff:update:self"),
      Alternative("get_session_by_id", "session", "session:read:any",
                  "session:read:self"),
      Alternative("get_sessions_by_user_id", "user", "session:read:any",
                  "session:read:self"),
      Alternative("terminate_user_all_sessions", "user", "session:delete:any",
                  "session:delete:self"),
      Alternative("get_student_by_id", "user", "student:read:any",
                  "student:read:self"),
      Alternative("update_student", "user", "student:update:any",
                  "student:update:self"),
      Alternative3("upload_aadhaar_card", "user", "student:create",
                   "student:update:any", "student:update:self"),
      Alternative3("upload_apaar_id", "user", "student:create",
                   "student:update:any", "student:update:self"),
      Alternative("get_aadhaar_card", "user", "student:aadhaar:download",
                  "student:read:self"),
      Alternative("get_apaar_id", "user", "student:apaar:download",
                  "student:read:self"),
      Alternative("get_parent", "user", "parent:read:any", "parent:read:self"),
      Alternative("update_department", "department", "department:update:any",
                  "department:update:self"),
      Alternative("delete_department", "department", "department:delete:any",
                  "department:delete:self"),
      Alternative("update_school", "school", "school:update:any",
                  "school:update:self"),
      Alternative("delete_school", "school", "school:delete:any",
                  "school:delete:self") }

\* the resources of a kind a request of the model can name
Targets(resource) ==
    IF resource = "user" THEN KnownUserIds
    ELSE IF resource = "session" THEN DOMAIN sessions
    ELSE IF resource = "school" THEN DOMAIN schools
    ELSE {}

\* the user the ownership test of an endpoint compares the caller with
owner_of(resource, target) ==
    IF resource = "session" THEN sessions[target].user_id
    ELSE IF resource = "school" THEN schools[target].dean_id
    ELSE target

\* the request of the resolved identity passes the endpoint's permission
\* dependency and its ownership test against the owner of the resource
AllowedAs(endpoint, session, owner) ==
    /\ session.ok
    /\ LET r == RequiresAnyOfGivenPermission(endpoint.groups, session.permissions)
       IN /\ r.ok
          /\ ~( /\ InGroup(endpoint.self, r.value)
                /\ owner # session.user_id )

\* the request passes the endpoint's dependencies and its ownership test
Allowed(endpoint, credentials, target) ==
    AllowedAs(endpoint, get_session(credentials, HomeOrigin),
              owner_of(endpoint.resource, target))

\* the permission lists a grant request of this specification carries
GrantLists ==
    { <<"user:update:any">>, <<"user:update:self">>, <<"session:delete:any">>,
      <<"session:delete:self">>, <<"school:update:any">>, <<"school:update:self">> }

NextGrants ==
    \/ Deliver
    \/ \E l \in SchoolLogins : Login(l[1], l[2], HomeOrigin)
    \/ \E c \in Credentials, u \in KnownUserIds, l \in GrantLists :
          GrantUserPermissions(c, HomeOrigin, u, l)

SpecGrants == Init /\ [][NextGrants]_vars

-----------------------------------------------------------------------------
(* The connection pool (utils/postgres.py): the handlers above are taken     *)
(* with a pool that never runs dry; here login and a gated endpoint are      *)
(* followed from pool.acquire() to the response                              *)

\* POSTGRES_MAX_CONNECTIONS of the model
MaxConnections == 3

\* get_session awaits connection.close() in each of its failure branches and
\* nowhere else; a closed connection's slot returns to the pool
get_session_closes(credentials, request) ==
    get_session_id(credentials).ok /\ ~get_session(credentials, request).ok

\* connections in use once a request that acquired one has been answered:
\* no handler and no dependency calls pool.release()
in_use_after_request(closed) == IF closed THEN in_use ELSE in_use + 1

\* POST /auth/login, from PgPool.get_connection to the response
PooledLogin(email_id, password, request) ==
    Idle /\ in_use < MaxConnections /\
    LET user_record == get_by_email_id(lower(email_id))
    IN /\ IF ~user_record.ok
          THEN /\ last' = Response("login", [kind |-> "absent", id |-> 0], request,
                                   0, NoAuth, NotFoundResponse(user_record), 0)
               /\ UNCHANGED <<sessions, next_session_id>>
          ELSE IF ~verify_password(users[user_record.value].password, password)
          THEN /\ last' = Response("login", [kind |-> "absent", id |-> 0], request,
                                   user_record.value, NoAuth,
                                   [status |-> 400, error |-> "PasswordIncorrect",
                                    context |-> "none"], 0)
               /\ UNCHANGED <<sessions, next_session_id>>
          ELSE LET session == create(user_record.value,
                                     hash_string(get_client_ip(request)))
               IN /\ next_session_id <= MaxSessions
                  /\ sessions' = sessions_after_create(
                                    user_record.value,
                                    hash_string(get_client_ip(request)))
                  /\ next_session_id' = next_session_id + 1
                  /\ last' = Response("login",
                                      [kind |-> "uuid", id |-> session.value.session_id],
                                      request, user_record.value, NoAuth,
                                      SuccessResponse(200), session.value.expires_at)
       /\ in_use' = in_use_after_request(FALSE)
       /\ UNCHANGED <<now, ticks, users, permissions, user_permissions, call,
                      inflight, students, staff, parents, schools, objects, pending>>

\* GET /session/{session_id}, from PgPool.get_connection to the response
PooledGetSessionById(credentials, request, session_id) ==
    Idle /\ in_use < MaxConnections /\
    LET auth == AuthorizeAnyOf(credentials, request,
                               << <<"session:read:any">>, <<"session:read:self">> >>)
        record == get_by_id(session_id)
    IN /\ last' =
            IF ~auth.ok
            THEN Response("get_session_by_id", credentials, request, session_id,
                          auth, auth.http, 0)
            ELSE IF ~record.ok
            THEN Response("get_session_by_id", credentials, request, session_id,
                          auth, NotFoundResponse(record), 0)
            ELSE IF /\ InGroup("session:read:self", auth.matched)
                    /\ record.value.user_id # auth.session.user_id
            THEN Response("get_session_by_id", credentials, request, session_id,
                          auth, NotEnoughPermissionsResponse, 0)
            ELSE Response("get_session_by_id", credentials, request, session_id,
                          auth, SuccessResponse(200), record.value.session_id)
       /\ in_use' = in_use_after_request(get_session_closes(credentials, request))
       /\ UNCHANGED <<now, ticks, users, permissions, user_permissions, sessions,
                      next_session_id, call, inflight,
                      students, staff, parents, schools, objects, pending>>

NextPool ==
    \/ Deliver
    \/ \E e \in LoginEmails, p \in LoginPasswords, o \in Origins :
          PooledLogin(e, p, o)
    \/ \E c \in Credentials, o \in Origins, s \in SessionIds :
          PooledGetSessionById(c, o, s)

SpecPool == Init /\ [][NextPool]_vars

----------------------------------------------------------------------------
(* Properties *)

\* the validity rule of the data model: the row exists, is not terminated
\* and its expiration lies in the future
IsValidSession(s) ==
    /\ s \in DOMAIN sessions
    /\ ~sessions[s].is_terminated
    /\ sessions[s].expires_at > now

\* the one error a failed session lookup gives
SessionNotFound == Raise("SessionNotFound", "session_id")

\* the operations whose dependencies resolve an identity (get_session)
GatedOps ==
    {"get_session_by_id", "terminate_session", "terminate_user_all_sessions",
     "clean_expired_sessions", "update_user", "grant_user_permissions",
     "revoke_user_permissions", "delete_user"}

\* a session id that was issued and has since been terminated or purged
IsRevoked(s) ==
    /\ s < next_session_id
    /\ s \notin DOMAIN sessions \/ sessions[s].is_terminated

\* a bearer token naming a session id that was never issued
NeverIssued == [kind |-> "uuid", id |-> MaxSessions + 1]

\* C1: SessionRepository.get_by_id returns the row of session_id exactly when
\* a row with that id exists, is not terminated and expires after now; in
\* every other case it raises one and the same SessionNotFound error.  The
\* GET /session/{session_id} handler answers 200 only for such a row and 404
\* for every other id, whichever of the three reasons applies.
C1_GetByIdIffValid ==
    /\ \A s \in SessionIds :
          LET r == get_by_id(s)
          IN /\ r.ok <=> IsValidSession(s)
             /\ r.ok => r.value = sessions[s]
             /\ ~r.ok => r = SessionNotFound
    /\ (last.op = "get_session_by_id" /\ last.caller # 0 /\ last.matched # <<>>) =>
          /\ last.http.status = 200 => IsValidSession(last.target)
          /\ ~IsValidSession(last.target) => last.http = NotFoundResponse(SessionNotFound)

\* C1 witness: an authorized lookup of a terminated, unexpired session was
\* answered 404
C1_Witness ==
    /\ last.op = "get_session_by_id"
    /\ last.http.status = 404
    /\ last.target \in DOMAIN sessions
    /\ sessions[last.target].is_terminated
    /\ sessions[last.target].expires_at > now

\* C2: a request whose bearer token names a currently valid session, but
\* whose client-IP hash differs from the hash stored for the session, resolves
\* no identity and is answered exactly like a request that names a session
\* never issued, expired or terminated: SessionInvalidOrExpired, 403.
C2_IpMismatchLikeMissing ==
    [][ (last'.op \in GatedOps /\ last'.token # 0) =>
            LET missing == get_session(NeverIssued, HomeOrigin).http
            IN /\ missing = SessionInvalidOrExpiredResponse
               /\ missing.status = 403
               /\ ~IsValidSession(last'.token) =>
                     last'.http = missing /\ last'.caller = 0
               /\ (IsValidSession(last'.token)
                     /\ hash_string(last'.ip) # sessions[last'.token].ip_addr) =>
                     last'.http = missing /\ last'.caller = 0
      ]_vars

\* C2 witness: a valid session was presented from another address and refused
C2_Witness ==
    /\ last.op \in GatedOps
    /\ IsValidSession(last.token)
    /\ hash_string(last.ip) # sessions[last.token].ip_addr
    /\ last.http.status = 403

SlugsOf(group) == {group[i] : i \in 1..Len(group)}

\* C4: RequiresAnyOfGivenPermission returns the first declared group, in
\* declaration order, all of whose permissions the identity holds, and raises
\* NotEnoughPermissions when the identity holds no group in full; for
\* [[a],[b,c]] an identity holding {b,c} gets [b,c] and one holding {a,b}
\* gets [a].
C4_FirstSatisfiedGroupWins ==
    /\ call.op = "RequiresAnyOfGivenPermission" =>
          LET satisfied == {i \in 1..Len(call.groups) :
                               SlugsOf(call.groups[i]) \subseteq call.held}
          IN /\ satisfied = {} =>
                   call.result = Raise("NotEnoughPermissions", "none")
             /\ satisfied # {} =>
                   /\ call.result.ok
                   /\ \E i \in satisfied :
                         /\ \A j \in satisfied : i <= j
                         /\ call.result.value = call.groups[i]
    /\ RequiresAnyOfGivenPermission(<< <<"a">>, <<"b", "c">> >>, {"b", "c"})
          = Return(<<"b", "c">>)
    /\ RequiresAnyOfGivenPermission(<< <<"a">>, <<"b", "c">> >>, {"a", "b"})
          = Return(<<"a">>)

\* C4 witness: with [[a],[b,c]] declared and {a,b,c} held, the first group
\* was returned although the second is held as well
C4_Witness ==
    /\ call.op = "RequiresAnyOfGivenPermission"
    /\ call.groups = << <<"a">>, <<"b", "c">> >>
    /\ call.held = {"a", "b", "c"}
    /\ call.result = Return(<<"a">>)

\* C5: in any-of-given-sets evaluation a group that lists no permission is
\* never the group matched, whatever the identity holds.
C5_EmptyGroupNeverMatches ==
    (call.op = "RequiresAnyOfGivenPermission" /\ call.result.ok) =>
        call.result.value # <<>>

\* C6: RequiresPermission(p1, ..., pn) lets the request proceed exactly when
\* every pi is a member of the identity's permission set, and raises
\* NotEnoughPermissions otherwise.
C6_AllOfIffSubset ==
    call.op = "RequiresPermission" =>
        /\ call.result.ok <=> SlugsOf(call.groups[1]) \subseteq call.held
        /\ ~call.result.ok => call.result = Raise("NotEnoughPermissions", "none")

\* C6 witness: two permissions were required and only one of them was held,
\* and the request was refused
C6_Witness ==
    /\ call.op = "RequiresPermission"
    /\ call.groups[1] = <<"a", "b">>
    /\ call.held = {"a", "c"}
    /\ ~call.result.ok

\* the self-scoped variant of an any/self pair
IsSelfGroup(group) == \E i \in 1..Len(group) : group[i] \in SelfPermissions

\* C7: on an endpoint declared with an any/self pair, a request matched on
\* the self variant whose target is not the identity's own user id is
\* answered 403 NotEnoughPermissions.
C7_SelfScopeForeignTargetRejected ==
    (/\ last.op \in {"update_user", "terminate_user_all_sessions"}
     /\ IsSelfGroup(last.matched)
     /\ last.target # last.caller) =>
        last.http = NotEnoughPermissionsResponse

\* the permissions stored for a user
GrantsOf(user_id) == {p \in Catalog : <<user_id, p>> \in user_permissions}

\* C8: the permission set a request is authorized against is the grant set
\* stored for the user when the request is handled, so a committed grant or
\* revoke decides the very next request.
C8_PermissionsReadPerRequest ==
    [][ last'.caller # 0 =>
            /\ last'.permissions = GrantsOf(last'.caller)
            /\ last'.op = "update_user" =>
                  (last'.http # NotEnoughPermissionsResponse
                     <=> \/ <<last'.caller, "user:update:any">> \in user_permissions
                         \/ <<last'.caller, "user:update:self">> \in user_permissions)
      ]_vars

\* C8 witness: a user whose self-scoped update permission has been revoked
\* was refused on the next update request
C8_Witness ==
    /\ last.op = "update_user"
    /\ last.caller = 2
    /\ last.http = NotEnoughPermissionsResponse
    /\ <<2, "user:update:self">> \in InitialGrants
    /\ <<2, "user:update:self">> \notin user_permissions

\* a refresh that succeeded in the step
RefreshSucceeded == last'.op = "refresh_session" /\ last'.http.status = 200

\* C9 as claimed: a successful refresh sets the expiration to now + 15
\* minutes, returns it, and the new expiration is strictly greater than the
\* old one.
C9_RefreshStrictlyExtends ==
    [][ RefreshSucceeded =>
            /\ sessions'[last'.target].expires_at = RoundToSecond(now + FifteenMinutes)
            /\ last'.value = sessions'[last'.target].expires_at
            /\ sessions'[last'.target].expires_at > sessions[last'.target].expires_at
      ]_vars

\* C9 amended: a successful refresh (only of a valid session) sets the
\* expiration to now + 15 minutes rounded to the whole second, returns it,
\* and the new expiration is never smaller than the old one.
C9_RefreshNeverShortens ==
    [][ RefreshSucceeded =>
            /\ IsValidSession(last'.target)
            /\ sessions'[last'.target].expires_at = RoundToSecond(now + FifteenMinutes)
            /\ last'.value = sessions'[last'.target].expires_at
            /\ sessions'[last'.target].expires_at >= sessions[last'.target].expires_at
      ]_vars

\* C9 witness: a refresh has moved a session's expiration beyond the one it
\* was created with
C9_Witness ==
    /\ last.op = "refresh_session"
    /\ last.http.status = 200
    /\ sessions[last.target].expires_at > RoundToSecond(FifteenMinutes) + FifteenMinutes

\* C10: a refresh naming a session that is not valid (no such row, expired
\* or terminated) is answered 404 SessionNotFound and changes no session row.
C10_RefreshInvalidFails ==
    [][ (last'.op = "refresh_session" /\ last'.token # 0
           /\ ~IsValidSession(last'.token)) =>
            /\ last'.http = NotFoundResponse(SessionNotFound)
            /\ last'.http.status = 404
            /\ sessions' = sessions
      ]_vars

\* C10 witness: an expired session that was never terminated was presented
\* for a refresh and refused
C10_Witness ==
    /\ last.op = "refresh_session"
    /\ last.http.status = 404
    /\ last.token \in DOMAIN sessions
    /\ ~sessions[last.token].is_terminated
    /\ sessions[last.token].expires_at <= now

\* C11: terminating (or logging out) a session that exists and was already
\* terminated fails with SessionNotFound (404): the first call succeeds and
\* the second one does not.
C11_SecondTerminateFails ==
    [][ (/\ last'.op \in {"logout", "terminate_session"}
         /\ last'.http.status \in {204, 404}
         /\ last'.target \in DOMAIN sessions
         /\ sessions[last'.target].is_terminated) =>
            last'.http = NotFoundResponse(SessionNotFound)
      ]_vars

\* the session row the two racing requests leave behind
RaceRow == sessions[inflight.session_id]

\* C12: a terminate and a refresh of a valid session S that run concurrently
\* end as one of the two serial orders: the terminate succeeds, S is
\* terminated and not valid afterwards, the refresh reports success only if
\* its statement ran before the terminate, and the row left is the row
\* before the race with the flag set and, if the refresh succeeded, the
\* expiration it returned.
C12_RaceIsSerial ==
    RaceDone =>
        /\ inflight.logout = SuccessResponse(204)
        /\ RaceRow.is_terminated
        /\ ~IsValidSession(inflight.session_id)
        /\ inflight.refresh.status = 200 =>
              /\ inflight.order = <<"refresh", "terminate">>
              /\ RaceRow = [inflight.before EXCEPT !.is_terminated = TRUE,
                                                   !.expires_at = inflight.value]
        /\ inflight.refresh.status # 200 =>
              /\ inflight.refresh = NotFoundResponse(SessionNotFound)
              /\ RaceRow = [inflight.before EXCEPT !.is_terminated = TRUE]

\* C12 witness: the terminate ran first and the refresh, still racing it on
\* an unexpired session, was refused
C12_Witness ==
    /\ RaceDone
    /\ inflight.order = <<"terminate", "refresh">>
    /\ inflight.refresh.status = 404
    /\ RaceRow.expires_at > now

\* C12 second witness state: the refresh ran first and succeeded, and the
\* session ended terminated with the extended expiration
C12_WitnessRefreshFirst ==
    /\ RaceDone
    /\ inflight.order = <<"refresh", "terminate">>
    /\ inflight.refresh.status = 200
    /\ RaceRow.expires_at > inflight.before.expires_at

\* the active users registered under the e-mail address, compared in lower case
ActiveUsersNamed(email_id) ==
    {u \in DOMAIN users : users[u].email_id = lower(email_id) /\ users[u].is_active}

\* the stored state is left as it was
StoredStateUnchanged ==
    UNCHANGED <<users, permissions, user_permissions, sessions, next_session_id>>

\* C13: a login with an e-mail that matches no active user is answered 404
\* UserNotFound, a login with a known e-mail and a wrong password is answered
\* 400 PasswordIncorrect, and in both cases no session row is created and no
\* stored state changes.
C13_FailedLoginChangesNothing ==
    [][ \A e \in LoginEmails, p \in LoginPasswords :
          Login(e, p, HomeOrigin) =>
            /\ ActiveUsersNamed(e) = {} =>
                  /\ last'.http.status = 404
                  /\ last'.http.error = "UserNotFound"
                  /\ StoredStateUnchanged
            /\ (\E u \in ActiveUsersNamed(e) : users[u].password # hash_password(p)) =>
                  /\ last'.http.status = 400
                  /\ last'.http.error = "PasswordIncorrect"
                  /\ StoredStateUnchanged
            /\ last'.http.status \in {400, 404} => StoredStateUnchanged
      ]_vars

\* C13 witness: a login naming a user who has been deactivated was answered
\* 404 although that user still has a row
C13_Witness ==
    /\ last.op = "login"
    /\ last.http.status = 404
    /\ last.http.error = "UserNotFound"
    /\ \A u \in {1, 2} : u \in DOMAIN users
    /\ ~users[2].is_active
    /\ sessions # << >>

\* a login that succeeded in the step
LoginSucceeded == last'.op = "login" /\ last'.http.status = 200

\* the distance between two clock values
Distance(a, b) == IF a >= b THEN a - b ELSE b - a

\* C14: a successful login creates one new row with is_terminated = false,
\* the logged-in user, the hash of the client address resolved for the
\* request, and an expiration of creation time + 15 minutes (as stored, at
\* whole-second precision, hence within one second of it); the expiration is
\* returned and the session is valid right after creation; no other row
\* changes.
C14_CreatedSessionIsValid ==
    [][ LoginSucceeded =>
          \E s \in SessionIds :
             /\ s = last'.token
             /\ s \notin DOMAIN sessions
             /\ DOMAIN sessions' = DOMAIN sessions \cup {s}
             /\ \A x \in DOMAIN sessions : sessions'[x] = sessions[x]
             /\ sessions'[s].session_id = s
             /\ sessions'[s].is_terminated = FALSE
             /\ sessions'[s].user_id = last'.target
             /\ sessions'[s].ip_addr = hash_string(last'.ip)
             /\ sessions'[s].expires_at = RoundToSecond(now + FifteenMinutes)
             /\ Distance(sessions'[s].expires_at, now + FifteenMinutes) <= SubSec
             /\ last'.value = sessions'[s].expires_at
             /\ IsValidSession(s)'
             /\ get_by_id(s)' = Return(sessions'[s])
      ]_vars

\* C14 witness: a login through a proxy, at a time that is not a whole
\* second, has created a second session bound to the forwarded address
C14_Witness ==
    /\ last.op = "login"
    /\ last.http.status = 200
    /\ last.token = 2
    /\ now % SubSec # 0
    /\ sessions[2].ip_addr = hash_string("10.0.0.2")
    /\ sessions[2].expires_at > now

\* the operations that take the bearer token through get_session_id
BearerOps == GatedOps \cup {"logout", "refresh_session"}

\* C15: a request is answered CredentialsNotFound (401) exactly when its
\* bearer token is absent or does not parse as a UUID, and then the sessions
\* table plays no part and is left alone; a token that parses and names a
\* session that is not valid is answered SessionInvalidOrExpired (403) by
\* identity resolution.
C15_CredentialsNotFoundIffUnparsed ==
    [][ last'.op \in BearerOps =>
          /\ last'.token = 0 <=> last'.http = CredentialsNotFoundResponse
          /\ last'.http.status = 401 <=> last'.token = 0
          /\ last'.token = 0 => /\ sessions' = sessions
                                /\ last'.caller = 0
          /\ (/\ last'.op \in GatedOps
              /\ last'.token # 0
              /\ ~IsValidSession(last'.token)) =>
                 /\ last'.http = SessionInvalidOrExpiredResponse
                 /\ last'.http.status = 403
      ]_vars

\* C15 witness: while a valid session exists, a request on an endpoint that
\* resolves an identity was answered 401 for lack of a parseable token
C15_Witness ==
    /\ last.op \in GatedOps
    /\ last.token = 0
    /\ last.http.status = 401
    /\ \E s \in DOMAIN sessions : IsValidSession(s)

\* a purge sweep ran in the step
SweepRan == last'.op = "clean_expired_sessions" /\ last'.http.status = 204

\* C16: every row the purge sweep deletes has expires_at + 1 month < now at
\* the time of the sweep, so no session whose expiration lies within the
\* grace window is deleted; every other row is left unchanged, and nothing
\* but the sweep deletes a row.
C16_SweepSparesGraceWindow ==
    [][ /\ \A s \in DOMAIN sessions :
              s \notin DOMAIN sessions' =>
                 /\ SweepRan
                 /\ sessions[s].expires_at + OneMonth < now
        /\ SweepRan =>
              /\ DOMAIN sessions' \subseteq DOMAIN sessions
              /\ \A s \in DOMAIN sessions' : sessions'[s] = sessions[s]
      ]_vars

\* C16 witness: a sweep has deleted the first session, which had expired
\* more than a month before, and kept the second one
C16_Witness ==
    /\ last.op = "clean_expired_sessions"
    /\ last.http.status = 204
    /\ DOMAIN sessions = {2}

\* C16 boundary state: a sweep ran when the first session had expired exactly
\* one month before, and kept it
C16_WitnessBoundary ==
    /\ last.op = "clean_expired_sessions"
    /\ last.http.status = 204
    /\ 1 \in DOMAIN sessions
    /\ sessions[1].expires_at + OneMonth = now

\* the session expired longer ago than the grace period
IsOverdue(s) ==
    s \in DOMAIN sessions /\ sessions[s].expires_at + OneMonth < now

SessionState(s) ==
    IF s \notin DOMAIN sessions
    THEN (IF s < next_session_id THEN "deleted" ELSE "unborn")
    ELSE IF sessions[s].is_terminated THEN "TERMINATED"
    ELSE IF sessions[s].expires_at > now THEN "ACTIVE"
    ELSE "EXPIRED"

\* the stored row of session s, if any
SessionRow(s) == IF s \in DOMAIN sessions THEN sessions[s] ELSE [session_id |-> 0]

\* the operations that terminate one session, and all of them
TerminateOps == {"logout", "terminate_session", "terminate_user_all_sessions"}

\* the step was made by a handler answering operation op
StepOf(ops) == last' # last /\ last'.op \in ops

\* the edges of the specified state machine that session s may take in a step
SpecifiedEdge(s) ==
    LET from == SessionState(s)
        to == SessionState(s)'
    IN \/ /\ from = "unborn" /\ to = "ACTIVE" /\ StepOf({"login"})
       \/ /\ from = "ACTIVE" /\ to = "ACTIVE" /\ StepOf({"refresh_session"})
          /\ SessionRow(s)' = [SessionRow(s) EXCEPT !.expires_at = last'.value]
       \/ /\ from = "ACTIVE" /\ to = "EXPIRED" /\ now' > now
          /\ SessionRow(s)' = SessionRow(s)
       \/ /\ from = "ACTIVE" /\ to = "TERMINATED" /\ StepOf(TerminateOps)
          /\ SessionRow(s)' = [SessionRow(s) EXCEPT !.is_terminated = TRUE]
       \/ /\ from = "EXPIRED" /\ to = "deleted"
          /\ StepOf({"clean_expired_sessions"})
          /\ sessions[s].expires_at + OneMonth < now

\* session s is left as it is by the step
SessionUntouched(s) ==
    /\ SessionState(s)' = SessionState(s)
    /\ SessionRow(s)' = SessionRow(s)

\* C18 as claimed: every change of a session is one of ACTIVE to ACTIVE by
\* refresh, ACTIVE to EXPIRED by time passing, ACTIVE to TERMINATED by
\* terminate, EXPIRED to deleted by the purge after the grace period (and
\* creation by login); nothing leads out of TERMINATED or deleted.
C18_SpecifiedStateMachine ==
    [][ \A s \in 1..MaxSessions : SessionUntouched(s) \/ SpecifiedEdge(s) ]_vars

\* the two further edges the repository takes
FurtherEdge(s) ==
    LET from == SessionState(s)
        to == SessionState(s)'
    IN \/ /\ from = "EXPIRED" /\ to = "TERMINATED"
          /\ StepOf({"logout", "terminate_session"})
          /\ SessionRow(s)' = [SessionRow(s) EXCEPT !.is_terminated = TRUE]
       \/ /\ from = "TERMINATED" /\ to = "deleted"
          /\ StepOf({"clean_expired_sessions"})
          /\ sessions[s].expires_at + OneMonth < now

\* The state machine the repository implements: the specified edges, and
\* besides terminate also takes an EXPIRED session to TERMINATED and the purge
\* also deletes a TERMINATED session whose expiration is older than the grace
\* period; nothing leads out of deleted, and nothing leads from TERMINATED
\* back to ACTIVE or EXPIRED.
RepositoryStateMachine ==
    [][ \A s \in 1..MaxSessions :
          SessionUntouched(s) \/ SpecifiedEdge(s) \/ FurtherEdge(s) ]_vars

\* a state of the implemented machine: one session has been terminated and is
\* still stored while another one has been purged
PurgedAndTerminated ==
    /\ SessionState(1) = "deleted"
    /\ SessionState(2) = "TERMINATED"
    /\ last.op = "logout"

\* a bulk termination succeeded in the step
TerminateAllSucceeded ==
    StepOf({"terminate_user_all_sessions"}) /\ last'.http.status = 204

\* C19: terminate_all_user_sessions(u) sets the terminated flag of every
\* currently-valid session of u and changes nothing else: the rows of every
\* other user are unchanged, no row appears or disappears, and the call
\* succeeds also when u has no session; afterwards the list of u's sessions is
\* empty, and an empty list stays empty until a login creates a new session.
C19_TerminateAllFrame ==
    [][ /\ TerminateAllSucceeded =>
              \E u \in UserIds :
                 /\ u = last'.target
                 /\ DOMAIN sessions' = DOMAIN sessions
                 /\ \A s \in DOMAIN sessions :
                       /\ sessions[s].user_id # u => sessions'[s] = sessions[s]
                       /\ (sessions[s].user_id = u /\ IsValidSession(s)) =>
                             sessions'[s] = [sessions[s] EXCEPT !.is_terminated = TRUE]
                       /\ sessions'[s].expires_at = sessions[s].expires_at
                       /\ sessions[s].is_terminated => sessions'[s].is_terminated
                 /\ get_by_user_id(u)' = {}
        /\ (StepOf({"terminate_user_all_sessions"}) /\ last'.caller # 0
              /\ get_by_user_id(last'.target) = {}) =>
                 last'.http.status \in {204, 403}
        /\ \A u \in UserIds :
              (get_by_user_id(u) = {} /\ get_by_user_id(u)' # {}) =>
                 /\ StepOf({"login"})
                 /\ next_session_id' = next_session_id + 1
      ]_vars

\* C19 witness: an administrator has terminated all sessions of another user,
\* who had a valid one, and the administrator's own session is still valid
C19_Witness ==
    /\ last.op = "terminate_user_all_sessions"
    /\ last.http.status = 204
    /\ last.caller = 1
    /\ last.target = 2
    /\ \E s \in DOMAIN sessions :
          /\ sessions[s].user_id = 2
          /\ sessions[s].is_terminated
          /\ sessions[s].expires_at > now
    /\ IsValidSession(last.token)

\* every grant refers to a permission of the catalog
GrantsInCatalog == \A g \in user_permissions : g[2] \in permissions

\* C20: after any sequence of permission create/delete and user grant/revoke
\* operations every user-permission grant refers to a permission that exists
\* in the catalog; deleting a permission that still has grants fails with
\* PermissionStillReferenced (409) and removes neither the permission nor any
\* grant.
C20_GrantsReferToCatalog ==
    [][ /\ GrantsInCatalog
        /\ GrantsInCatalog'
        /\ \A g \in RequestSlugs :
              (/\ StepOf({"delete_permission"})
               /\ last'.caller # 0
               /\ last'.http # NotEnoughPermissionsResponse
               /\ last'.target = g
               /\ \E x \in user_permissions : x[2] = g) =>
                  /\ last'.http.status = 409
                  /\ last'.http.error = "PermissionStillReferenced"
                  /\ permissions' = permissions
                  /\ user_permissions' = user_permissions
      ]_vars

\* C20 witness: a permission was created and granted, and its deletion was
\* then refused while the grant is still stored
C20_Witness ==
    /\ last.op = "delete_permission"
    /\ last.http.status = 409
    /\ last.target = "report:read"
    /\ "report:read" \in permissions
    /\ <<2, "report:read">> \in user_permissions

\* a password change succeeded in the step
PasswordChanged == StepOf({"update_user_password"}) /\ last'.http.status = 204

\* C21: a successful password change for user u terminates all of u's
\* sessions that were valid before the change, so that none of them resolves
\* an identity afterwards.
C21_PasswordChangeEndsSessions ==
    [][ PasswordChanged =>
          \A s \in DOMAIN sessions :
             (sessions[s].user_id = last'.target /\ IsValidSession(s)) =>
                /\ s \in DOMAIN sessions'
                /\ sessions'[s].is_terminated
      ]_vars

\* the endpoints that create a profile together with its backing user
ProfileOps == {"create_student", "create_staff", "create_parent"}

\* C22: create_staff, create_student and create_parent create the user row
\* and the profile row in one transaction: a request that does not end in
\* 201 Created, whether it is answered 409 AlreadyExists or fails otherwise,
\* leaves table users as it was, so a user row inserted earlier in that
\* request is not persisted.
C22_FailedProfileLeavesNoUser ==
    [][ (StepOf(ProfileOps) /\ last'.http.status # 201) => users' = users ]_vars

\* a profile request was answered 409 after it had inserted a new user row,
\* and that row is not in the table
C22_Witness ==
    /\ last.op \in ProfileOps
    /\ last.http.status = 409
    /\ last.value = TRUE
    /\ last.target \notin DOMAIN users

\* C23: every stored user e-mail is lowercased by every path that creates a
\* user, so that login, which looks the user up by the lowercased e-mail it
\* was sent, finds every active user whatever letter case was used at
\* registration or at login.
C23_StoredEmailsAreLowercase ==
    \A u \in DOMAIN users :
        users[u].is_active =>
            /\ users[u].email_id = lower(users[u].email_id)
            /\ \A e \in ProfileEmails :
                  lower(e) = lower(users[u].email_id) =>
                      get_by_email_id(lower(e)) = Return(u)

\* the addresses of the model that parse as an IP address, with their normal form
NormalForm ==
    [a \in {"10.0.0.1", "10.0.0.2", "::0001"} |-> IF a = "::0001" THEN "::1" ELSE a]

\* the chosen value in normal form when it parses, the sentinel otherwise
Normalized(chosen) ==
    IF chosen \in DOMAIN NormalForm THEN NormalForm[chosen] ELSE "unknown"

\* C24: get_client_ip takes the first entry of X-Forwarded-For when the
\* request carries that header, else X-Real-IP when the request carries it,
\* else the direct connection address; it returns the chosen value in normal
\* form when it parses as an IP address and "unknown" when it does not or
\* when there is no direct address, and it never raises.
C24_PrecedenceByPresence ==
    call.op = "get_client_ip" =>
        LET request == call.request
            chosen == IF request.forwarded_for # <<>>
                      THEN strip(request.forwarded_for[1])
                      ELSE IF request.real_ip # <<>>
                      THEN strip(request.real_ip[1])
                      ELSE request.client
        IN call.result = Return(Normalized(chosen))

\* C24, amended: a header is taken when the request carries it with a
\* non-empty value; a header with an empty value is passed over like a
\* missing one.
C24_PrecedenceByNonEmptyHeader ==
    call.op = "get_client_ip" =>
        LET request == call.request
            chosen == IF request.forwarded_for \notin {<<>>, <<"">>}
                      THEN strip(request.forwarded_for[1])
                      ELSE IF request.real_ip \notin {<<>>, <<"">>}
                      THEN strip(request.real_ip[1])
                      ELSE request.client
        IN call.result = Return(Normalized(chosen))

\* an empty X-Forwarded-For was passed over and the X-Real-IP address returned
C24_Witness ==
    /\ call.op = "get_client_ip"
    /\ call.request.forwarded_for = <<"">>
    /\ call.request.real_ip = <<" ::0001 ">>
    /\ call.result = Return("::1")

\* a self-scoped school request applies its mutation in this step
SelfScopedMutation ==
    /\ pending # NoPending
    /\ pending' = NoPending
    /\ schools' # schools

\* C29: a self-scoped update or delete of a school is applied only if the
\* caller is the school's dean at the moment the mutation is applied,
\* whatever concurrent request changed the dean between the ownership check
\* and the mutation.
C29_MutationOnlyByCurrentDean ==
    [][ SelfScopedMutation =>
            schools[pending.school_id].dean_id = pending.auth.session.user_id ]_vars

\* the answers of a request that was not authorized
Rejections ==
    {CredentialsNotFoundResponse, SessionInvalidOrExpiredResponse,
     NotEnoughPermissionsResponse}

\* C25: a request to a permission-gated endpoint that is rejected with
\* CredentialsNotFound, SessionInvalidOrExpired or NotEnoughPermissions
\* leaves the users, the catalog, the grants, the sessions, the profile and
\* school rows and the uploaded objects as they were.
C25_RejectionChangesNothing ==
    [][ (last' # last /\ last'.http \in Rejections) =>
            UNCHANGED <<users, permissions, user_permissions, sessions,
                        next_session_id, students, staff, parents, schools,
                        objects>> ]_vars

\* a self-scoped caller asked to replace another user's profile image, after
\* an image had been stored, and was rejected
C25_Witness ==
    /\ last.op = "update_user_profile_image"
    /\ last.http = NotEnoughPermissionsResponse
    /\ last.caller = 2
    /\ last.target = 1
    /\ objects # << >>

\* a request with a terminated session's token was rejected by a writing
\* endpoint
C25_WitnessInvalidSession ==
    /\ last.op \in {"create_student", "update_school", "delete_school",
                    "update_user_profile_image"}
    /\ last.http = SessionInvalidOrExpiredResponse

\* C26: once a user has been soft-deleted no session of that user resolves
\* to an identity: every request to a gated endpoint that carries the token
\* of a session owned by an inactive user is answered SessionInvalidOrExpired,
\* whether or not the user still holds grants.
C26_InactiveUserResolvesNoIdentity ==
    [][ ( /\ last' # last
          /\ last'.op \in GatedOps
          /\ last'.token \in DOMAIN sessions
          /\ ~users[sessions[last'.token].user_id].is_active )
        => last'.http = SessionInvalidOrExpiredResponse ]_vars

\* C27: POST /auth/refresh extends a session's expiry only when the hash of
\* the request's client address equals the hash stored for the session; a
\* token presented from another origin than the one it was issued to does
\* not keep the session alive.
C27_RefreshChecksOrigin ==
    [][ (StepOf({"refresh_session"}) /\ last'.http.status = 200) =>
            verify_hash(last'.ip, sessions[last'.token].ip_addr) ]_vars

\* C28: every endpoint declared with alternative groups declares its self
\* group last, after the any group, and a grant never turns an allowed
\* request into a denied one: a request that passed the dependencies and the
\* ownership test before a grant passes them after it; an identity holding
\* both variants matches the any group and meets no ownership test.
C28_GrantNeverDenies ==
    [][ /\ \A e \in AlternativeEndpoints :
              /\ e.groups[Len(e.groups)] = <<e.self>>
              /\ \A i \in 1..(Len(e.groups) - 1) : ~InGroup(e.self, e.groups[i])
        /\ (StepOf({"grant_user_permissions"}) /\ last'.http.status = 204) =>
              \A c \in Credentials :
                  LET before == get_session(c, HomeOrigin)
                      after == get_session(c, HomeOrigin)'
                  IN \A e \in AlternativeEndpoints :
                        \A t \in Targets(e.resource) :
                            AllowedAs(e, before, owner_of(e.resource, t)) =>
                                AllowedAs(e, after, owner_of(e.resource, t)') ]_vars

\* the self-scoped user was granted the any variant as well, and a request
\* of that user naming a foreign target is allowed
C28_Witness ==
    /\ last.op = "grant_user_permissions"
    /\ last.http.status = 204
    /\ {"user:update:any", "user:update:self"} \subseteq GrantsOf(2)
    /\ \E s \in DOMAIN sessions :
          /\ sessions[s].user_id = 2
          /\ Allowed(Alternative("update_user", "user", "user:update:any",
                                 "user:update:self"),
                     [kind |-> "uuid", id |-> s], 1)

\* C30: every request that acquired a pooled connection through
\* PgPool.get_connection has given it back by the time it is answered, on the
\* success path and on every failure path: between requests no connection is
\* in use, so the pool never runs dry
C30_ConnectionsGivenBack == in_use = 0

\* the pool is exhausted by answered requests: pool.acquire() of every
\* further request waits for a connection that nobody gives back
C30_PoolExhausted == Idle /\ in_use = MaxConnections

====
